---- MODULE Spec2Model ----
(***************************************************************************)
(* MENU-QR: the menus tRPC router (src/src/server/api/root.ts) over the    *)
(* relational store, and the in-memory query cache                         *)
(* (src/src/utils/db-optimization.utils.ts).                               *)
(*                                                                         *)
(* Strings that the code takes apart (names, cities, slugs) are sequences  *)
(* of one-character strings.  Rows are records; a table is the set of its  *)
(* rows.  Every router operation is one action that leaves its outcome in  *)
(* the variable last.                                                      *)
(***************************************************************************)
EXTENDS Integers, Sequences, FiniteSets, TLC

VARIABLES
    languages,            \* table languages: rows [id, isoCode]
    menus,                \* table menus: rows [id, userId, name, city, slug, isPublished,
                          \*                    backgroundImageUrl, logoImageUrl]
    menuLanguages,        \* table menuLanguages: rows [menuId, languageId, isDefault]
    categories,           \* table categories: rows [id, menuId]
    categoriesTranslation,\* rows [categoryId, languageId, name]
    dishes,               \* table dishes: rows [id, menuId, categoryId, price, pictureUrl]
    dishesTranslation,    \* rows [dishId, languageId, name]
    dishesTag,            \* rows [dishId, tagName]
    dishVariants,         \* table dishVariants: rows [id, dishId, price]
    variantTranslations,  \* rows [dishVariantId, languageId, name]
    subscriptions,        \* table subscriptions: rows [profileId, status]
    last,                 \* the last call: [op, caller, input, code, out, prev]
    cache,                \* QueryCache.cache: key -> NULL or [data, expiry]
    now,                  \* Date.now(), in milliseconds
    lastSet,              \* history: key -> NULL or the latest set not followed by delete/clear
    lastGet,              \* the last QueryCache call: [op, key, at, out]
    performanceBuffer,    \* the metrics kept by the performance logger, oldest first
    storedMetrics,        \* history: every metrics record ever stored, oldest first
    inflight,             \* the requests in progress: a set of [id, op, pc, ...]
    answered              \* history: the answers of the store to the tracked query, oldest first

dbVars == <<languages, menus, menuLanguages, categories, categoriesTranslation,
            dishes, dishesTranslation, dishesTag, dishVariants,
            variantTranslations, subscriptions>>
contentVars == <<menus, menuLanguages, categories, categoriesTranslation,
                 dishes, dishesTranslation, dishesTag, dishVariants,
                 variantTranslations>>
cacheVars == <<cache, now, lastSet, lastGet>>
metricsVars == <<performanceBuffer, storedMetrics>>
memoryVars == <<cacheVars, metricsVars>>
vars == <<dbVars, last, memoryVars, inflight, answered>>

NULL == "null"

----------------------------------------------------------------------------
(* Bounds of the model. *)

MaxTime == 4         \* the clock stops ticking here
MaxTtl == 2          \* largest ttl handed to QueryCache.set
MaxTurns == 4        \* batches of one bulkInsertBatched call kept on record

Users == {"u1", "u2"}
MenuIds == {"m1", "m2"}
CategoryIds == {"c1"}
DishIds == {"d1"}
VariantIds == {"v1"}

----------------------------------------------------------------------------
(* Slug generation. *)

LowerOf == [c \in {"A", "B", "C", "X"} |->
              CASE c = "A" -> "a" [] c = "B" -> "b" [] c = "C" -> "c" [] c = "X" -> "x"]

\* String.prototype.toLowerCase, one character
toLowerCaseChar(c) == IF c \in DOMAIN LowerOf THEN LowerOf[c] ELSE c

toLowerCase(s) == [i \in 1..Len(s) |-> toLowerCaseChar(s[i])]

\* the character class [a-z0-9] under the i flag
IsAlphaNumeric(c) ==
    toLowerCaseChar(c) \in {"a", "b", "c", "x", "0", "1", "2", "3", "4", "5", "6", "7", "8", "9"}

\* text.replace(" ", "-"): a string pattern replaces the first occurrence only
RECURSIVE ReplaceFirstSpace(_)
ReplaceFirstSpace(s) ==
    IF s = <<>> THEN <<>>
    ELSE IF Head(s) = " " THEN <<"-">> \o Tail(s)
    ELSE <<Head(s)>> \o ReplaceFirstSpace(Tail(s))

prepareTextForSlug(text) == toLowerCase(ReplaceFirstSpace(text))

\* slug.replace(/[^a-z0-9]+/gi, "-"): every maximal run of other characters
\* becomes one hyphen
RECURSIVE ReplaceNonAlphaNumericRuns(_)
ReplaceNonAlphaNumericRuns(s) ==
    IF s = <<>> THEN <<>>
    ELSE IF IsAlphaNumeric(Head(s))
         THEN <<Head(s)>> \o ReplaceNonAlphaNumericRuns(Tail(s))
    ELSE IF Tail(s) # <<>> /\ ~IsAlphaNumeric(Head(Tail(s)))
         THEN ReplaceNonAlphaNumericRuns(Tail(s))
    ELSE <<"-">> \o ReplaceNonAlphaNumericRuns(Tail(s))

\* randomNumber is Math.random().toString().slice(2, 5)
generateMenuSlug(name, city, randomNumber) ==
    toLowerCase(ReplaceNonAlphaNumericRuns(
        prepareTextForSlug(name) \o <<"-">> \o prepareTextForSlug(city)
            \o <<"-">> \o randomNumber))

----------------------------------------------------------------------------
(* The store: lookups, constraints and referential actions. *)

\* the six rows of the seed list, in the order the seed route creates them
SeedIsoCodes == <<"en", "es", "fr", "de", "it", "hi">>

HasMenu(id) == \E m \in menus : m.id = id
MenuOf(id) == CHOOSE m \in menus : m.id = id
HasDish(id) == \E d \in dishes : d.id = id
DishOf(id) == CHOOSE d \in dishes : d.id = id
HasCategory(id) == \E c \in categories : c.id = id
CategoryOf(id) == CHOOSE c \in categories : c.id = id
HasVariant(id) == \E v \in dishVariants : v.id = id
VariantOf(id) == CHOOSE v \in dishVariants : v.id = id

\* a slug column without the unique index
SlugNeverTaken(slug, selfId) == FALSE

\* menus.slug carries a unique index: a write that would give two rows the
\* same slug is refused (P2002)
SlugTakenByOther(slug, selfId) == \E m \in menus : m.slug = slug /\ m.id # selfId

\* rows removed together with a set of dishes (onDelete: Cascade)
VariantsOfDishes(ds) == {v \in dishVariants : v.dishId \in ds}

\* the outcome of a call; prev is history: what an update found before it wrote
ReplyAfter(op, caller, input, code, out, prev) ==
    last' = [op |-> op, caller |-> caller, input |-> input, code |-> code, out |-> out,
             prev |-> prev]

Reply(op, caller, input, code, out) == ReplyAfter(op, caller, input, code, out, NULL)

Fail(op, caller, input, code) ==
    /\ Reply(op, caller, input, code, NULL)
    /\ UNCHANGED dbVars

----------------------------------------------------------------------------
(* POST /api/seed-languages *)

seedLanguages ==
    /\ IF Cardinality(languages) > 0
       THEN UNCHANGED languages
       ELSE languages' = {[id |-> i, isoCode |-> SeedIsoCodes[i]] : i \in 1..Len(SeedIsoCodes)}
    /\ Reply("seedLanguages", NULL, NULL, "OK", NULL)
    /\ UNCHANGED <<contentVars, subscriptions, memoryVars, inflight, answered>>

----------------------------------------------------------------------------
(* The subscription webhook, for a subscription_* event arriving with no   *)
(* signing secret configured (the signature comparison is then skipped):   *)
(* upserts the subscription row of custom_data.userId and answers 200.     *)

subscriptionWebhook(userId, status) ==
    /\ subscriptions' = {s \in subscriptions : s.profileId # userId}
                            \cup {[profileId |-> userId, status |-> status]}
    /\ Reply("subscriptionWebhook", userId, [status |-> status], "OK", NULL)
    /\ UNCHANGED <<languages, contentVars, memoryVars, inflight, answered>>

----------------------------------------------------------------------------
(* menusRouter: menus *)

\* an ownership check that only asks whether the menu exists
MenuNotFound(menuId, caller) == ~HasMenu(menuId)

\* !existingMenu || existingMenu.userId !== ctx.user.id
MenuNotOwnedBy(menuId, caller) == ~HasMenu(menuId) \/ MenuOf(menuId).userId # caller

\* an update that leaves the slug alone
UpdatedMenuKeepingSlug(old, input, slug) ==
    [old EXCEPT !.name = input.name, !.city = input.city]

\* data of db.menus.update in upsertMenu
UpdatedMenu(old, input, slug) ==
    [old EXCEPT !.name = input.name, !.city = input.city, !.slug = slug]

HasDefaultLanguage == \E l \in languages : l.isoCode = "en"

\* a missing default language reported as a missing resource
DefaultLanguageAsNotFound == "NOT_FOUND"

\* the code of the TRPCError getDefaultLanguage throws when it finds no row
DefaultLanguageMissing == "INTERNAL_SERVER_ERROR"

\* a default language fixed by id instead of looked up by isoCode
getLanguageByFixedId == CHOOSE l \in languages : l.id = 2

\* db.languages.findFirst({ where: { isoCode: "en" } })
getDefaultLanguage == CHOOSE l \in languages : l.isoCode = "en"

\* input is [id, name, city]; randomNumber is what Math.random() gives this call,
\* newId the id the store generates for a created row
upsertMenu(caller, input, randomNumber, newId) ==
    LET slug == generateMenuSlug(input.name, input.city, randomNumber)
        withRnd == [id |-> input.id, name |-> input.name, city |-> input.city,
                    randomNumber |-> randomNumber]
    IN
    /\ UNCHANGED <<memoryVars, inflight, answered>>
    /\ IF ~HasDefaultLanguage
       THEN Fail("upsertMenu", caller, withRnd, DefaultLanguageMissing)
       ELSE IF input.id = NULL
       THEN IF SlugTakenByOther(slug, newId)
            THEN Fail("upsertMenu", caller, withRnd, "P2002")
            ELSE LET row == [id |-> newId, userId |-> caller, name |-> input.name,
                             city |-> input.city, slug |-> slug, isPublished |-> FALSE,
                             backgroundImageUrl |-> NULL, logoImageUrl |-> NULL]
                 IN /\ menus' = menus \cup {row}
                    /\ menuLanguages' = menuLanguages \cup
                          {[menuId |-> newId, languageId |-> getDefaultLanguage.id,
                            isDefault |-> TRUE]}
                    /\ Reply("upsertMenu", caller, withRnd, "OK", row)
                    /\ UNCHANGED <<languages, categories, categoriesTranslation, dishes,
                                   dishesTranslation, dishesTag, dishVariants,
                                   variantTranslations, subscriptions>>
       ELSE IF MenuNotOwnedBy(input.id, caller)
       THEN Fail("upsertMenu", caller, withRnd, "FORBIDDEN")
       ELSE IF SlugTakenByOther(slug, input.id)
       THEN Fail("upsertMenu", caller, withRnd, "P2002")
       ELSE LET old == MenuOf(input.id)
                row == UpdatedMenu(old, input, slug)
            IN /\ menus' = (menus \ {old}) \cup {row}
               /\ ReplyAfter("upsertMenu", caller, withRnd, "OK", row, old)
               /\ UNCHANGED <<languages, menuLanguages, categories, categoriesTranslation,
                              dishes, dishesTranslation, dishesTag, dishVariants,
                              variantTranslations, subscriptions>>

\* db.menus.findFirst({ where: { slug } }) with the fixed projection
HasFullMenu(slug) == \E m \in menus : m.slug = slug
getFullMenu(slug) == CHOOSE m \in menus : m.slug = slug

getMenuBySlug(caller, slug) ==
    /\ IF ~HasFullMenu(slug)
       THEN Reply("getMenuBySlug", caller, [slug |-> slug], "NOT_FOUND", NULL)
       ELSE Reply("getMenuBySlug", caller, [slug |-> slug], "OK", getFullMenu(slug))
    /\ UNCHANGED <<dbVars, memoryVars, inflight, answered>>

getPublicMenuBySlug(slug) ==
    /\ IF ~HasFullMenu(slug)
       THEN Reply("getPublicMenuBySlug", NULL, [slug |-> slug], "NOT_FOUND", NULL)
       ELSE Reply("getPublicMenuBySlug", NULL, [slug |-> slug], "OK", getFullMenu(slug))
    /\ UNCHANGED <<dbVars, memoryVars, inflight, answered>>

\* the statuses checkIfSubscribed accepts
ActiveStatuses == {"active", "on_trial"}
SubscriptionStatuses == {"active", "on_trial", "cancelled", "expired"}

\* status is the set of statuses found: empty when the caller has no row
checkIfSubscribed(status) == status # {} /\ status \subseteq ActiveStatuses

\* db.subscriptions.findFirst({ where: { profileId } })?.status
SubscriptionStatusOf(userId) == {s.status : s \in {r \in subscriptions : r.profileId = userId}}

\* db.menus.update({ where: { id, userId }, ... }): the row the where clause selects
OwnMenu(menuId, caller) == {m \in menus : m.id = menuId /\ m.userId = caller}

\* a gate that only asks whether the caller has a subscription row
HasSubscription(caller) == SubscriptionStatusOf(caller) # {}

\* isSubscriptionActive in publishMenu
IsSubscriptionActive(caller) == checkIfSubscribed(SubscriptionStatusOf(caller))

publishMenuMutation(caller, menuId) ==
    /\ IF ~IsSubscriptionActive(caller)
       THEN Fail("publishMenu", caller, [menuId |-> menuId], "NOT_FOUND")
       ELSE IF OwnMenu(menuId, caller) = {}
       THEN Fail("publishMenu", caller, [menuId |-> menuId], "P2025")
       ELSE LET old == MenuOf(menuId)
                row == [old EXCEPT !.isPublished = TRUE]
            IN /\ menus' = (menus \ {old}) \cup {row}
               /\ Reply("publishMenu", caller, [menuId |-> menuId], "OK", row)
               /\ UNCHANGED <<languages, menuLanguages, categories, categoriesTranslation,
                              dishes, dishesTranslation, dishesTag, dishVariants,
                              variantTranslations, subscriptions>>

publishMenu(caller, menuId) ==
    publishMenuMutation(caller, menuId) /\ UNCHANGED <<memoryVars, inflight, answered>>

unpublishMenuMutation(caller, menuId) ==
    /\ IF OwnMenu(menuId, caller) = {}
       THEN Fail("unpublishMenu", caller, [menuId |-> menuId], "P2025")
       ELSE LET old == MenuOf(menuId)
                row == [old EXCEPT !.isPublished = FALSE]
            IN /\ menus' = (menus \ {old}) \cup {row}
               /\ Reply("unpublishMenu", caller, [menuId |-> menuId], "OK", row)
               /\ UNCHANGED <<languages, menuLanguages, categories, categoriesTranslation,
                              dishes, dishesTranslation, dishesTag, dishVariants,
                              variantTranslations, subscriptions>>

unpublishMenu(caller, menuId) ==
    unpublishMenuMutation(caller, menuId) /\ UNCHANGED <<memoryVars, inflight, answered>>

----------------------------------------------------------------------------
(* Prices.  A number the caller sends is kept in thousandths (12.50 is      *)
(* 12500), so that inputs with more than two decimals exist in the model.   *)

\* a conversion by the wrong factor
TimesTen(price) == {price * 10}

\* input.price * 100, in floating point: the exact product, or a number just
\* off it when the input has no exact binary form (1.15 * 100 is
\* 114.99999999999999), which only multiples of 0.125 are sure to have
TimesHundred(price) ==
    {price * 100} \cup (IF price % 125 = 0 THEN {} ELSE {price * 100 - 1, price * 100 + 1})

\* whether a number in thousandths is a whole number: the price columns are Int
\* and the store refuses any other value
IsWholeNumber(x) == x % 1000 = 0

\* the whole number a value in thousandths stands for
WholeNumber(x) == x \div 1000

\* a nullable price: <<>> is null, <<p>> a number in thousandths
\* input.price ? input.price * 100 : null
VariantPrice(price) ==
    IF price # <<>> /\ price[1] # 0 THEN {<<p>> : p \in TimesHundred(price[1])} ELSE {<<>>}

----------------------------------------------------------------------------
(* menusRouter: dishes *)

DishTranslationRows(dishId, data) ==
    {[dishId |-> dishId, languageId |-> t.languageId, name |-> t.name] : t \in data}

DishTagRows(dishId, tags) == {[dishId |-> dishId, tagName |-> t] : t \in tags}

\* an update that patches: only the rows of the languages in the input go
MergedDishTranslations(dishId, data) ==
    {t \in dishesTranslation :
        t.dishId # dishId \/ t.languageId \notin {d.languageId : d \in data}}
        \cup DishTranslationRows(dishId, data)

\* dishesTranslation: { deleteMany: { dishId }, createMany: { data } }
ReplacedDishTranslations(dishId, data) ==
    {t \in dishesTranslation : t.dishId # dishId} \cup DishTranslationRows(dishId, data)

\* the translation list of a dish, as an input would give it
DishTranslationList(dishId) ==
    {[languageId |-> t.languageId, name |-> t.name] :
        t \in {r \in dishesTranslation : r.dishId = dishId}}

\* input is [id, menuId, categoryId, price, translatedDishData, tags]
upsertDish(caller, input, newId) ==
    \E product \in TimesHundred(input.price) :
    /\ UNCHANGED <<memoryVars, inflight, answered>>
    /\ IF MenuNotOwnedBy(input.menuId, caller)
       THEN Fail("upsertDish", caller, input, "FORBIDDEN")
       ELSE IF input.id # NULL /\ (~HasDish(input.id) \/ DishOf(input.id).menuId # input.menuId)
       THEN Fail("upsertDish", caller, input, "FORBIDDEN")
       ELSE IF ~IsWholeNumber(product)
       THEN Fail("upsertDish", caller, input, "VALIDATION")
       ELSE IF input.categoryId # NULL /\ ~HasCategory(input.categoryId)
       THEN Fail("upsertDish", caller, input, "P2003")
       ELSE IF input.id = NULL
       THEN LET row == [id |-> newId, menuId |-> input.menuId,
                        categoryId |-> input.categoryId,
                        price |-> WholeNumber(product), pictureUrl |-> NULL]
            IN /\ dishes' = dishes \cup {row}
               /\ dishesTranslation' = dishesTranslation \cup
                      DishTranslationRows(newId, input.translatedDishData)
               /\ dishesTag' = dishesTag \cup DishTagRows(newId, input.tags)
               /\ Reply("upsertDish", caller, input, "OK", row)
               /\ UNCHANGED <<languages, menus, menuLanguages, categories,
                              categoriesTranslation, dishVariants, variantTranslations,
                              subscriptions>>
       ELSE LET old == DishOf(input.id)
                row == [old EXCEPT !.categoryId = input.categoryId,
                                   !.price = WholeNumber(product)]
            IN /\ dishes' = (dishes \ {old}) \cup {row}
               /\ dishesTag' = {t \in dishesTag : t.dishId # input.id}
                                  \cup DishTagRows(input.id, input.tags)
               /\ dishesTranslation' =
                      ReplacedDishTranslations(input.id, input.translatedDishData)
               /\ ReplyAfter("upsertDish", caller, input, "OK", row,
                             DishTranslationList(input.id))
               /\ UNCHANGED <<languages, menus, menuLanguages, categories,
                              categoriesTranslation, dishVariants, variantTranslations,
                              subscriptions>>

----------------------------------------------------------------------------
(* menusRouter: variants *)

VariantTranslationRows(variantId, data) ==
    {[dishVariantId |-> variantId, languageId |-> t.languageId, name |-> t.name] : t \in data}

\* the owner of the menu a dish belongs to: dish.menus.userId
DishOwner(dishId) == MenuOf(DishOf(dishId).menuId).userId

\* variantTranslations: { deleteMany: { dishVariantId }, createMany: { data } }
ReplacedVariantTranslations(variantId, data) ==
    {t \in variantTranslations : t.dishVariantId # variantId}
        \cup VariantTranslationRows(variantId, data)

VariantTranslationList(variantId) ==
    {[languageId |-> t.languageId, name |-> t.name] :
        t \in {r \in variantTranslations : r.dishVariantId = variantId}}

\* input is [id, dishId, price, translatedVariant]
upsertDishVariant(caller, input, newId) ==
    \E price \in VariantPrice(input.price) :
    /\ UNCHANGED <<memoryVars, inflight, answered>>
    /\ IF ~HasDish(input.dishId) \/ DishOwner(input.dishId) # caller
       THEN Fail("upsertDishVariant", caller, input, "FORBIDDEN")
       ELSE IF input.id # NULL
               /\ (~HasVariant(input.id) \/ VariantOf(input.id).dishId # input.dishId)
       THEN Fail("upsertDishVariant", caller, input, "FORBIDDEN")
       ELSE IF price # <<>> /\ ~IsWholeNumber(price[1])
       THEN Fail("upsertDishVariant", caller, input, "VALIDATION")
       ELSE LET stored == IF price = <<>> THEN <<>> ELSE <<WholeNumber(price[1])>> IN
            IF input.id = NULL
            THEN LET row == [id |-> newId, dishId |-> input.dishId, price |-> stored]
                 IN /\ dishVariants' = dishVariants \cup {row}
                    /\ variantTranslations' = variantTranslations \cup
                           VariantTranslationRows(newId, input.translatedVariant)
                    /\ Reply("upsertDishVariant", caller, input, "OK", row)
                    /\ UNCHANGED <<languages, menus, menuLanguages, categories,
                                   categoriesTranslation, dishes, dishesTranslation,
                                   dishesTag, subscriptions>>
            ELSE LET old == VariantOf(input.id)
                     row == [old EXCEPT !.price = stored]
                 IN /\ dishVariants' = (dishVariants \ {old}) \cup {row}
                    /\ variantTranslations' =
                           ReplacedVariantTranslations(input.id, input.translatedVariant)
                    /\ ReplyAfter("upsertDishVariant", caller, input, "OK", row,
                                  VariantTranslationList(input.id))
                    /\ UNCHANGED <<languages, menus, menuLanguages, categories,
                                   categoriesTranslation, dishes, dishesTranslation,
                                   dishesTag, subscriptions>>

----------------------------------------------------------------------------
(* menusRouter: categories *)

CategoryTranslationRows(categoryId, data) ==
    {[categoryId |-> categoryId, languageId |-> t.languageId, name |-> t.name] : t \in data}

\* categoriesTranslation: { deleteMany: { categoryId }, createMany: { data } }
ReplacedCategoryTranslations(categoryId, data) ==
    {t \in categoriesTranslation : t.categoryId # categoryId}
        \cup CategoryTranslationRows(categoryId, data)

CategoryTranslationList(categoryId) ==
    {[languageId |-> t.languageId, name |-> t.name] :
        t \in {r \in categoriesTranslation : r.categoryId = categoryId}}

\* input is [id, menuId, translatedCategoriesData]
upsertCategory(caller, input, newId) ==
    /\ UNCHANGED <<memoryVars, inflight, answered>>
    /\ IF MenuNotOwnedBy(input.menuId, caller)
       THEN Fail("upsertCategory", caller, input, "FORBIDDEN")
       ELSE IF input.id = NULL
       THEN LET row == [id |-> newId, menuId |-> input.menuId]
            IN /\ categories' = categories \cup {row}
               /\ categoriesTranslation' = categoriesTranslation \cup
                      CategoryTranslationRows(newId, input.translatedCategoriesData)
               /\ Reply("upsertCategory", caller, input, "OK", row)
               /\ UNCHANGED <<languages, menus, menuLanguages, dishes, dishesTranslation,
                              dishesTag, dishVariants, variantTranslations, subscriptions>>
       ELSE IF ~HasCategory(input.id) \/ CategoryOf(input.id).menuId # input.menuId
       THEN Fail("upsertCategory", caller, input, "FORBIDDEN")
       ELSE /\ categoriesTranslation' =
                   ReplacedCategoryTranslations(input.id, input.translatedCategoriesData)
            /\ ReplyAfter("upsertCategory", caller, input, "OK", CategoryOf(input.id),
                          CategoryTranslationList(input.id))
            /\ UNCHANGED <<languages, menus, menuLanguages, categories, dishes,
                           dishesTranslation, dishesTag, dishVariants, variantTranslations,
                           subscriptions>>

----------------------------------------------------------------------------
(* menusRouter: deletes.  The where clause names the id and the owner; a    *)
(* delete whose where clause selects no row is refused by the store (P2025).*)

OwnCategory(categoryId, caller) ==
    {c \in categories : c.id = categoryId /\ HasMenu(c.menuId)
                            /\ MenuOf(c.menuId).userId = caller}

\* a where clause that names the id only
AnyDish(dishId, caller) == {d \in dishes : d.id = dishId}

OwnDish(dishId, caller) ==
    {d \in dishes : d.id = dishId /\ HasMenu(d.menuId) /\ MenuOf(d.menuId).userId = caller}

OwnVariant(variantId, caller) ==
    {v \in dishVariants : v.id = variantId /\ HasDish(v.dishId)
                              /\ DishOwner(v.dishId) = caller}

\* a store whose dishVariants.dishId relation does not cascade
RemoveDishesOnly(ds, cs) ==
    /\ dishes' = {IF d.categoryId \in cs THEN [d EXCEPT !.categoryId = NULL] ELSE d :
                     d \in {x \in dishes : x.id \notin ds}}
    /\ dishesTranslation' = {t \in dishesTranslation : t.dishId \notin ds}
    /\ dishesTag' = {t \in dishesTag : t.dishId \notin ds}
    /\ UNCHANGED <<dishVariants, variantTranslations>>

\* the rows that go with a set of dishes; a surviving dish that refers to one of
\* the removed categories cs loses the reference (onDelete: SetNull)
RemoveDishes(ds, cs) ==
    /\ dishes' = {IF d.categoryId \in cs THEN [d EXCEPT !.categoryId = NULL] ELSE d :
                     d \in {x \in dishes : x.id \notin ds}}
    /\ dishesTranslation' = {t \in dishesTranslation : t.dishId \notin ds}
    /\ dishesTag' = {t \in dishesTag : t.dishId \notin ds}
    /\ dishVariants' = dishVariants \ VariantsOfDishes(ds)
    /\ variantTranslations' =
           {t \in variantTranslations :
               t.dishVariantId \notin {v.id : v \in VariantsOfDishes(ds)}}

deleteCategory(caller, categoryId) ==
    /\ UNCHANGED <<memoryVars, inflight, answered>>
    /\ IF OwnCategory(categoryId, caller) = {}
       THEN Fail("deleteCategory", caller, [categoryId |-> categoryId], "P2025")
       ELSE /\ categories' = {c \in categories : c.id # categoryId}
            /\ categoriesTranslation' =
                   {t \in categoriesTranslation : t.categoryId # categoryId}
            /\ RemoveDishes({}, {categoryId})
            /\ Reply("deleteCategory", caller, [categoryId |-> categoryId], "OK",
                     CategoryOf(categoryId))
            /\ UNCHANGED <<languages, menus, menuLanguages, subscriptions>>

deleteDish(caller, dishId) ==
    /\ UNCHANGED <<memoryVars, inflight, answered>>
    /\ IF OwnDish(dishId, caller) = {}
       THEN Fail("deleteDish", caller, [dishId |-> dishId], "P2025")
       ELSE /\ RemoveDishes({dishId}, {})
            /\ Reply("deleteDish", caller, [dishId |-> dishId], "OK", DishOf(dishId))
            /\ UNCHANGED <<languages, menus, menuLanguages, categories,
                           categoriesTranslation, subscriptions>>

deleteVariant(caller, variantId) ==
    /\ UNCHANGED <<memoryVars, inflight, answered>>
    /\ IF OwnVariant(variantId, caller) = {}
       THEN Fail("deleteVariant", caller, [variantId |-> variantId], "P2025")
       ELSE /\ dishVariants' = {v \in dishVariants : v.id # variantId}
            /\ variantTranslations' =
                   {t \in variantTranslations : t.dishVariantId # variantId}
            /\ Reply("deleteVariant", caller, [variantId |-> variantId], "OK",
                     VariantOf(variantId))
            /\ UNCHANGED <<languages, menus, menuLanguages, categories,
                           categoriesTranslation, dishes, dishesTranslation, dishesTag,
                           subscriptions>>

deleteMenu(caller, menuId) ==
    /\ UNCHANGED <<memoryVars, inflight, answered>>
    /\ IF OwnMenu(menuId, caller) = {}
       THEN Fail("deleteMenu", caller, [menuId |-> menuId], "P2025")
       ELSE /\ menus' = {m \in menus : m.id # menuId}
            /\ menuLanguages' = {l \in menuLanguages : l.menuId # menuId}
            /\ categories' = {c \in categories : c.menuId # menuId}
            /\ categoriesTranslation' =
                   {t \in categoriesTranslation :
                       t.categoryId \notin {c.id : c \in {x \in categories : x.menuId = menuId}}}
            /\ RemoveDishes({d.id : d \in {x \in dishes : x.menuId = menuId}},
                            {c.id : c \in {x \in categories : x.menuId = menuId}})
            /\ ReplyAfter("deleteMenu", caller, [menuId |-> menuId], "OK", MenuOf(menuId),
                          [categories |-> {c \in categories : c.menuId = menuId},
                           dishes |-> {d \in dishes : d.menuId = menuId},
                           dishVariants |->
                               VariantsOfDishes({d.id : d \in {x \in dishes : x.menuId = menuId}})])
            /\ UNCHANGED <<languages, subscriptions>>

----------------------------------------------------------------------------
(* menusRouter: images.  A null url clears the field and removes the stored *)
(* object at the same time; the two promises are awaited together and the   *)
(* result of the update is returned.  The storage client resolves with      *)
(* { data, error }: a removal that fails resolves too, with error set.      *)

StorageOutcomes == {"removed", "error"}
ImageUrls == {NULL, "https://img/1"}

\* awaiting the pair while inspecting the removal's error field
AllSucceeded(removal) == removal = "removed"

\* Promise.all([imagePromise, updatePromise]).then((val) => val[1]): the
\* resolved value of the removal is never looked at
AllResolved(removal) == TRUE

\* input is [menuId, backgroundImgUrl]
updateMenuBackgroundImg(caller, input, removal) ==
    LET asked == [menuId |-> input.menuId, backgroundImgUrl |-> input.backgroundImgUrl,
                  removal |-> IF input.backgroundImgUrl = NULL THEN removal ELSE NULL]
    IN
    /\ UNCHANGED <<memoryVars, inflight, answered>>
    /\ IF OwnMenu(input.menuId, caller) = {}
       THEN Fail("updateMenuBackgroundImg", caller, asked, "P2025")
       ELSE LET old == MenuOf(input.menuId)
                row == [old EXCEPT !.backgroundImageUrl = input.backgroundImgUrl]
            IN /\ menus' = (menus \ {old}) \cup {row}
               /\ IF input.backgroundImgUrl = NULL /\ ~AllResolved(removal)
                  THEN ReplyAfter("updateMenuBackgroundImg", caller, asked,
                                  "INTERNAL_SERVER_ERROR", NULL, old)
                  ELSE ReplyAfter("updateMenuBackgroundImg", caller, asked, "OK", row, old)
               /\ UNCHANGED <<languages, menuLanguages, categories, categoriesTranslation,
                              dishes, dishesTranslation, dishesTag, dishVariants,
                              variantTranslations, subscriptions>>

\* input is [menuId, logoImgUrl]
updateMenuLogoImg(caller, input, removal) ==
    LET asked == [menuId |-> input.menuId, logoImgUrl |-> input.logoImgUrl,
                  removal |-> IF input.logoImgUrl = NULL THEN removal ELSE NULL]
    IN
    /\ UNCHANGED <<memoryVars, inflight, answered>>
    /\ IF OwnMenu(input.menuId, caller) = {}
       THEN Fail("updateMenuLogoImg", caller, asked, "P2025")
       ELSE LET old == MenuOf(input.menuId)
                row == [old EXCEPT !.logoImageUrl = input.logoImgUrl]
            IN /\ menus' = (menus \ {old}) \cup {row}
               /\ IF input.logoImgUrl = NULL /\ ~AllResolved(removal)
                  THEN ReplyAfter("updateMenuLogoImg", caller, asked,
                                  "INTERNAL_SERVER_ERROR", NULL, old)
                  ELSE ReplyAfter("updateMenuLogoImg", caller, asked, "OK", row, old)
               /\ UNCHANGED <<languages, menuLanguages, categories, categoriesTranslation,
                              dishes, dishesTranslation, dishesTag, dishVariants,
                              variantTranslations, subscriptions>>

\* input is [dishId, imageUrl]
updateDishImageUrl(caller, input, removal) ==
    LET asked == [dishId |-> input.dishId, imageUrl |-> input.imageUrl,
                  removal |-> IF input.imageUrl = NULL THEN removal ELSE NULL]
    IN
    /\ UNCHANGED <<memoryVars, inflight, answered>>
    /\ IF OwnDish(input.dishId, caller) = {}
       THEN Fail("updateDishImageUrl", caller, asked, "P2025")
       ELSE LET old == DishOf(input.dishId)
                row == [old EXCEPT !.pictureUrl = input.imageUrl]
            IN /\ dishes' = (dishes \ {old}) \cup {row}
               /\ IF input.imageUrl = NULL /\ ~AllResolved(removal)
                  THEN ReplyAfter("updateDishImageUrl", caller, asked,
                                  "INTERNAL_SERVER_ERROR", NULL, old)
                  ELSE ReplyAfter("updateDishImageUrl", caller, asked, "OK", row, old)
               /\ UNCHANGED <<languages, menus, menuLanguages, categories,
                              categoriesTranslation, dishesTranslation, dishesTag,
                              dishVariants, variantTranslations, subscriptions>>

----------------------------------------------------------------------------
(* QueryCache *)

CacheKeys == {"k1", "k2"}
CacheValues == {"v1", "v2"}

HasEntry(key) == \E e \in cache : e.key = key
EntryOf(key) == CHOOSE e \in cache : e.key = key

\* a sweep that drops an entry in the millisecond its ttl ends
IsExpiredAtExpiry(entry, t) == t >= entry.expiry

\* Date.now() > cached.expiry
IsExpired(entry, t) == t > entry.expiry

\* the history of sets: removed by delete and clear, replaced by set
Remember(key, data, ttl) ==
    lastSet' = {s \in lastSet : s.key # key}
                   \cup {[key |-> key, data |-> data, at |-> now, ttl |-> ttl]}

CacheSet(key, data, ttl) ==
    /\ cache' = {e \in cache : e.key # key}
                    \cup {[key |-> key, data |-> data, expiry |-> now + ttl]}
    /\ Remember(key, data, ttl)
    /\ lastGet' = [op |-> "set", key |-> key, at |-> now, out |-> NULL]
    /\ UNCHANGED <<dbVars, metricsVars, inflight, answered, last, now>>

CacheGet(key) ==
    /\ IF ~HasEntry(key)
       THEN /\ lastGet' = [op |-> "get", key |-> key, at |-> now, out |-> NULL]
            /\ UNCHANGED cache
       ELSE IF IsExpired(EntryOf(key), now)
       THEN /\ cache' = {e \in cache : e.key # key}
            /\ lastGet' = [op |-> "get", key |-> key, at |-> now, out |-> NULL]
       ELSE /\ lastGet' = [op |-> "get", key |-> key, at |-> now, out |-> EntryOf(key).data]
            /\ UNCHANGED cache
    /\ UNCHANGED <<dbVars, metricsVars, inflight, answered, last, now, lastSet>>

CacheDelete(key) ==
    /\ cache' = {e \in cache : e.key # key}
    /\ lastSet' = {s \in lastSet : s.key # key}
    /\ lastGet' = [op |-> "delete", key |-> key, at |-> now, out |-> NULL]
    /\ UNCHANGED <<dbVars, metricsVars, inflight, answered, last, now>>

CacheClear ==
    /\ cache' = {}
    /\ lastSet' = {}
    /\ lastGet' = [op |-> "clear", key |-> NULL, at |-> now, out |-> NULL]
    /\ UNCHANGED <<dbVars, metricsVars, inflight, answered, last, now>>

\* a sweep that empties the map
SweptClean(entries, t) == {}

\* for each entry: if (now > value.expiry) this.cache.delete(key)
Swept(entries, t) == {e \in entries : ~IsExpired(e, t)}

\* the sweep the interval timer runs
CacheCleanup ==
    /\ cache' = Swept(cache, now)
    /\ lastGet' = [op |-> "cleanup", key |-> NULL, at |-> now, out |-> NULL]
    /\ UNCHANGED <<dbVars, metricsVars, inflight, answered, last, now, lastSet>>

\* a millisecond passes
Tick ==
    /\ now < MaxTime
    /\ now' = now + 1
    /\ UNCHANGED <<dbVars, metricsVars, inflight, answered, last, cache, lastSet, lastGet>>

----------------------------------------------------------------------------
(* cachedQuery and what is built on it.  A JavaScript value of type         *)
(* T | null is a set here: {} is null and {v} is v.  A cache key is a       *)
(* sequence of characters.                                                  *)

CACHE_TTL_MEDIUM == 300000

\* what QueryCache.get(key) returns: null when absent or expired
CachedData(key) ==
    IF HasEntry(key) /\ ~IsExpired(EntryOf(key), now) THEN EntryOf(key).data ELSE {}

\* the map after QueryCache.get(key): an expired entry of the key is dropped
CacheAfterGet(key) ==
    IF HasEntry(key) /\ IsExpired(EntryOf(key), now)
    THEN {e \in cache : e.key # key}
    ELSE cache

\* a wrapper that stores under the key whatever the query produced, its
\* error included
StoredOnRejection(key, queryFn, ttl) ==
    {[key |-> key, data |-> queryFn.value, expiry |-> now + ttl]}

\* a rejected await leaves cachedQuery before queryCache.set is reached
StoredOnFailure(key, queryFn, ttl) == {}

\* queryFn is what the query would do if it were run now:
\* [resolves |-> TRUE, value |-> the result] or [resolves |-> FALSE, value |-> the error].
\* out.queryFnCalls counts the runs of queryFn in this call.
cachedQuery(key, queryFn, ttl) ==
    LET cached == CachedData(key)
        asked == [key |-> key, ttl |-> ttl, queryFn |-> queryFn]
        before == [lastSet |-> {s \in lastSet : s.key = key}, at |-> now]
        got == [op |-> "get", key |-> key, at |-> now, out |-> cached]
    IN
    /\ UNCHANGED <<dbVars, metricsVars, inflight, answered, now>>
    /\ IF cached # {}
       THEN /\ cache' = CacheAfterGet(key)
            /\ lastGet' = got
            /\ UNCHANGED lastSet
            /\ ReplyAfter("cachedQuery", NULL, asked, "OK",
                          [value |-> cached, queryFnCalls |-> 0], before)
       ELSE IF ~queryFn.resolves
       THEN /\ cache' = CacheAfterGet(key) \cup StoredOnFailure(key, queryFn, ttl)
            /\ lastGet' = got
            /\ UNCHANGED lastSet
            /\ ReplyAfter("cachedQuery", NULL, asked, "REJECTED",
                          [value |-> queryFn.value, queryFnCalls |-> 1], before)
       ELSE /\ cache' = {e \in CacheAfterGet(key) : e.key # key}
                            \cup {[key |-> key, data |-> queryFn.value, expiry |-> now + ttl]}
            /\ Remember(key, queryFn.value, ttl)
            /\ lastGet' = [op |-> "set", key |-> key, at |-> now, out |-> {}]
            /\ ReplyAfter("cachedQuery", NULL, asked, "OK",
                          [value |-> queryFn.value, queryFnCalls |-> 1], before)

\* key.includes(pattern)
Includes(key, pattern) ==
    \E i \in 1..(Len(key) - Len(pattern) + 1) : SubSeq(key, i, i + Len(pattern) - 1) = pattern

invalidateCachePattern(pattern) ==
    /\ cache' = {e \in cache : ~Includes(e.key, pattern)}
    /\ lastSet' = {s \in lastSet : ~Includes(s.key, pattern)}
    /\ lastGet' = [op |-> "invalidate", key |-> pattern, at |-> now, out |-> {}]
    /\ UNCHANGED <<dbVars, metricsVars, inflight, answered, last, now>>

\* `menu:${slug}:${includeUnpublished}`
MenuCacheKey(slug, includeUnpublished) ==
    <<"m", "e", "n", "u", ":">> \o slug \o <<":">>
        \o (IF includeUnpublished THEN <<"t", "r", "u", "e">> ELSE <<"f", "a", "l", "s", "e">>)

\* the select of getMenuOptimized, for one menu row
MenuSelection(m) ==
    [menu |-> m,
     dishes |-> {d \in dishes : d.menuId = m.id},
     dishesTranslation |->
         {t \in dishesTranslation : \E d \in dishes : d.menuId = m.id /\ d.id = t.dishId},
     dishVariants |->
         {v \in dishVariants : \E d \in dishes : d.menuId = m.id /\ d.id = v.dishId},
     categories |-> {c \in categories : c.menuId = m.id},
     menuLanguages |-> {l \in menuLanguages : l.menuId = m.id}]

\* db.menus.findFirst({ where: { slug, ...(includeUnpublished ? {} : { isPublished: true }) } })
FindMenuOptimized(slug, includeUnpublished) ==
    {MenuSelection(m) :
        m \in {x \in menus : x.slug = slug /\ (includeUnpublished \/ x.isPublished)}}

getMenuOptimized(slug, includeUnpublished) ==
    cachedQuery(MenuCacheKey(slug, includeUnpublished),
                [resolves |-> TRUE, value |-> FindMenuOptimized(slug, includeUnpublished)],
                CACHE_TTL_MEDIUM)

----------------------------------------------------------------------------
(* getUserMenusPaginated.  A JavaScript number that may be NaN or Infinity  *)
(* is a record [kind, value].                                               *)

Number(n) == [kind |-> "number", value |-> n]

\* Math.ceil(total / pageSize) for total >= 0 and pageSize >= 0: 0 / 0 is NaN
\* and n / 0 is Infinity
MathCeilOfQuotient(total, pageSize) ==
    IF pageSize = 0 THEN [kind |-> IF total = 0 THEN "NaN" ELSE "Infinity", value |-> 0]
    ELSE Number((total + pageSize - 1) \div pageSize)

\* the orders in which findMany may list the rows (updatedAt is not modelled)
OrderingsOf(rows) ==
    {f \in [1..Cardinality(rows) -> rows] : \A i, j \in DOMAIN f : f[i] = f[j] => i = j}

\* findMany({ skip, take }) over an ordered list, skip >= 0 and take >= 0
SkipTake(ordered, skip, take) ==
    SubSeq(ordered, skip + 1, IF skip + take < Len(ordered) THEN skip + take ELSE Len(ordered))

\* page and pageSize are integers, pageSize >= 0; the store refuses a negative skip
getUserMenusPaginated(userId, page, pageSize) ==
    LET skip == (page - 1) * pageSize
        own == {m \in menus : m.userId = userId}
        total == Cardinality(own)
        asked == [userId |-> userId, page |-> page, pageSize |-> pageSize]
    IN
    /\ UNCHANGED <<dbVars, memoryVars, inflight, answered>>
    /\ IF skip < 0
       THEN Reply("getUserMenusPaginated", NULL, asked, "VALIDATION", NULL)
       ELSE \E ordered \in OrderingsOf(own) :
               Reply("getUserMenusPaginated", NULL, asked, "OK",
                     [menus |-> SkipTake(ordered, skip, pageSize),
                      pagination |-> [page |-> page, pageSize |-> pageSize, total |-> total,
                                      totalPages |-> MathCeilOfQuotient(total, pageSize)]])

----------------------------------------------------------------------------
(* The performance logger's metrics buffer. *)

MAX_BUFFER_SIZE == 100

\* a buffer that drops the newest entry when it is full
KeptOldest(buffer) == IF Len(buffer) > MAX_BUFFER_SIZE THEN SubSeq(buffer, 1, Len(buffer) - 1)
                      ELSE buffer

\* if (performanceBuffer.length > MAX_BUFFER_SIZE) performanceBuffer.shift()
KeptNewest(buffer) == IF Len(buffer) > MAX_BUFFER_SIZE THEN Tail(buffer) ELSE buffer

storeMetrics(metrics) ==
    /\ performanceBuffer' = KeptNewest(Append(performanceBuffer, metrics))
    /\ storedMetrics' = Append(storedMetrics, metrics)
    /\ Reply("storeMetrics", NULL, metrics, "OK", NULL)
    /\ UNCHANGED <<dbVars, inflight, answered, cacheVars>>

getAllMetrics ==
    /\ Reply("getAllMetrics", NULL, NULL, "OK", performanceBuffer)
    /\ UNCHANGED <<dbVars, memoryVars, inflight, answered>>

clearMetrics ==
    /\ performanceBuffer' = <<>>
    /\ Reply("clearMetrics", NULL, NULL, "OK", NULL)
    /\ UNCHANGED <<dbVars, inflight, answered, cacheVars, storedMetrics>>

----------------------------------------------------------------------------
(* Route classification (src/src/config/routes.config.ts).  A pathname is a *)
(* sequence of characters.                                                  *)

HOME == <<"/">>
LOGIN == <<"/", "l", "o", "g", "i", "n">>
REGISTER == <<"/", "r", "e", "g", "i", "s", "t", "e", "r">>
PRIVACY_POLICY == <<"/", "p", "r", "i", "v", "a", "c", "y", "-", "p", "o", "l", "i", "c", "y">>
REFUND_POLICY == <<"/", "r", "e", "f", "u", "n", "d", "-", "p", "o", "l", "i", "c", "y">>
TERMS_OF_SERVICE == <<"/", "t", "e", "r", "m", "s", "-", "o", "f", "-", "s", "e", "r", "v", "i", "c", "e">>
MENU_CREATE == <<"/", "m", "e", "n", "u", "/", "c", "r", "e", "a", "t", "e">>
MENU_MANAGE == <<"/", "m", "e", "n", "u", "/", "m", "a", "n", "a", "g", "e">>

getPublicRoutes == <<HOME, LOGIN, REGISTER, PRIVACY_POLICY, REFUND_POLICY, TERMS_OF_SERVICE>>

\* pathname.startsWith(route)
StartsWith(pathname, route) ==
    Len(pathname) >= Len(route) /\ SubSeq(pathname, 1, Len(route)) = route

isPublicRoute(pathname) ==
    \E i \in DOMAIN getPublicRoutes : StartsWith(pathname, getPublicRoutes[i])

isProtectedRoute(pathname) ==
    StartsWith(pathname, MENU_CREATE) \/ StartsWith(pathname, MENU_MANAGE)

\* one call of each classifier for a pathname
IsPublicRouteCall(pathname) ==
    /\ Reply("isPublicRoute", NULL, pathname, "OK", isPublicRoute(pathname))
    /\ UNCHANGED <<dbVars, memoryVars, inflight, answered>>

IsProtectedRouteCall(pathname) ==
    /\ Reply("isProtectedRoute", NULL, pathname, "OK", isProtectedRoute(pathname))
    /\ UNCHANGED <<dbVars, memoryVars, inflight, answered>>

----------------------------------------------------------------------------
(* The router registry (src/src/server/api/router.registry.ts).  A router  *)
(* name is a sequence of characters.                                       *)

MENUS == <<"m", "e", "n", "u", "s">>
AUTH == <<"a", "u", "t", "h">>
LANGUAGES == <<"l", "a", "n", "g", "u", "a", "g", "e", "s">>
PAYMENTS == <<"p", "a", "y", "m", "e", "n", "t", "s">>
USER == <<"u", "s", "e", "r">>

\* the keys of ROUTER_REGISTRY, in insertion order
ROUTER_REGISTRY == <<MENUS, AUTH, LANGUAGES, PAYMENTS, USER>>

\* keys that an object literal inherits from Object.prototype (three of them)
ObjectPrototypeKeys ==
    {<<"c", "o", "n", "s", "t", "r", "u", "c", "t", "o", "r">>,
     <<"t", "o", "S", "t", "r", "i", "n", "g">>,
     <<"v", "a", "l", "u", "e", "O", "f">>}

\* Object.keys(ROUTER_REGISTRY): the own enumerable keys
getRegisteredRouters == ROUTER_REGISTRY

\* routerName in ROUTER_REGISTRY: own keys and inherited ones alike
isRouterRegistered(routerName) ==
    \/ \E i \in DOMAIN ROUTER_REGISTRY : ROUTER_REGISTRY[i] = routerName
    \/ routerName \in ObjectPrototypeKeys

GetRegisteredRoutersCall ==
    /\ Reply("getRegisteredRouters", NULL, NULL, "OK", getRegisteredRouters)
    /\ UNCHANGED <<dbVars, memoryVars, inflight, answered>>

IsRouterRegisteredCall(routerName) ==
    /\ Reply("isRouterRegistered", NULL, routerName, "OK", isRouterRegistered(routerName))
    /\ UNCHANGED <<dbVars, memoryVars, inflight, answered>>

----------------------------------------------------------------------------
(* Requests in progress.  A handler that awaits the store more than once    *)
(* is taken one await at a time; what it holds between two awaits is its    *)
(* record in inflight.                                                      *)

RequestIds == {1, 2}

FreeRequestIds == RequestIds \ {r.id : r \in inflight}

----------------------------------------------------------------------------
(* The update branch of upsertDish, upsertCategory and upsertDishVariant,   *)
(* statement by statement: the checks, then one update() whose nested       *)
(* writes (deleteMany, createMany) the store runs in one transaction.       *)

TranslationUpdates == {"upsertDish", "upsertCategory", "upsertDishVariant"}

\* the translation rows of the entity an update names, as readers see them
DishTranslationsOf(id) == {t \in dishesTranslation : t.dishId = id}
CategoryTranslationsOf(id) == {t \in categoriesTranslation : t.categoryId = id}
VariantTranslationsOf(id) == {t \in variantTranslations : t.dishVariantId = id}

TranslationsOfTarget(op, id) ==
    CASE op = "upsertDish" -> DishTranslationsOf(id)
      [] op = "upsertCategory" -> CategoryTranslationsOf(id)
      [] op = "upsertDishVariant" -> VariantTranslationsOf(id)

\* the translation list an update supplies
SuppliedTranslations(op, input) ==
    CASE op = "upsertDish" -> input.translatedDishData
      [] op = "upsertCategory" -> input.translatedCategoriesData
      [] op = "upsertDishVariant" -> input.translatedVariant

\* the checks that precede the update() call
UpdateVerified(op, caller, input) ==
    /\ input.id # NULL
    /\ CASE op = "upsertDish" ->
              /\ ~MenuNotOwnedBy(input.menuId, caller)
              /\ HasDish(input.id) /\ DishOf(input.id).menuId = input.menuId
         [] op = "upsertCategory" ->
              /\ ~MenuNotOwnedBy(input.menuId, caller)
              /\ HasCategory(input.id) /\ CategoryOf(input.id).menuId = input.menuId
         [] op = "upsertDishVariant" ->
              /\ HasDish(input.dishId) /\ DishOwner(input.dishId) = caller
              /\ HasVariant(input.id) /\ VariantOf(input.id).dishId = input.dishId

\* a deleteMany that readers see as soon as it has run
DeletedAtOnce(rows, deleted) == rows \ deleted

\* a deleteMany nested in update(): until the transaction commits, readers
\* still see the rows it has deleted
DeletedOnCommit(rows, deleted) == rows

\* the checks pass and the handler goes on to update(); before is history:
\* the translations the entity had at that moment
BeginUpdate(op, caller, input, id) ==
    /\ id \in FreeRequestIds
    /\ UpdateVerified(op, caller, input)
    /\ inflight' = inflight \cup
           {[id |-> id, op |-> op, pc |-> "update", caller |-> caller, input |-> input,
             before |-> TranslationsOfTarget(op, input.id)]}
    /\ UNCHANGED <<dbVars, last, memoryVars, answered>>

\* the transaction runs its deleteMany
NestedDeleteMany(r) ==
    /\ r \in inflight /\ r.op \in TranslationUpdates /\ r.pc = "update"
    /\ inflight' = (inflight \ {r}) \cup {[r EXCEPT !.pc = "deleted"]}
    /\ dishesTranslation' =
           IF r.op = "upsertDish"
           THEN DeletedOnCommit(dishesTranslation, DishTranslationsOf(r.input.id))
           ELSE dishesTranslation
    /\ categoriesTranslation' =
           IF r.op = "upsertCategory"
           THEN DeletedOnCommit(categoriesTranslation, CategoryTranslationsOf(r.input.id))
           ELSE categoriesTranslation
    /\ variantTranslations' =
           IF r.op = "upsertDishVariant"
           THEN DeletedOnCommit(variantTranslations, VariantTranslationsOf(r.input.id))
           ELSE variantTranslations
    /\ UNCHANGED <<languages, menus, menuLanguages, categories, dishes, dishesTag,
                   dishVariants, subscriptions, last, memoryVars, answered>>

\* the transaction runs its createMany and commits, or finds the row gone
\* (P2025) or the price not an Int and rolls back
NestedCreateMany(r) ==
    /\ r \in inflight /\ r.op \in TranslationUpdates /\ r.pc = "deleted"
    /\ inflight' = inflight \ {r}
    /\ UNCHANGED <<memoryVars, answered>>
    /\ CASE r.op = "upsertDish" ->
              \E product \in TimesHundred(r.input.price) :
              IF ~HasDish(r.input.id)
              THEN Fail(r.op, r.caller, r.input, "P2025")
              ELSE IF ~IsWholeNumber(product)
              THEN Fail(r.op, r.caller, r.input, "VALIDATION")
              ELSE IF r.input.categoryId # NULL /\ ~HasCategory(r.input.categoryId)
              THEN Fail(r.op, r.caller, r.input, "P2003")
              ELSE LET old == DishOf(r.input.id)
                       row == [old EXCEPT !.categoryId = r.input.categoryId,
                                          !.price = WholeNumber(product)]
                   IN /\ dishes' = (dishes \ {old}) \cup {row}
                      /\ dishesTag' = {t \in dishesTag : t.dishId # r.input.id}
                                         \cup DishTagRows(r.input.id, r.input.tags)
                      /\ dishesTranslation' =
                             ReplacedDishTranslations(r.input.id, r.input.translatedDishData)
                      /\ ReplyAfter(r.op, r.caller, r.input, "OK", row, r.before)
                      /\ UNCHANGED <<languages, menus, menuLanguages, categories,
                                     categoriesTranslation, dishVariants,
                                     variantTranslations, subscriptions>>
         [] r.op = "upsertCategory" ->
              IF ~HasCategory(r.input.id)
              THEN Fail(r.op, r.caller, r.input, "P2025")
              ELSE /\ categoriesTranslation' =
                          ReplacedCategoryTranslations(r.input.id,
                                                       r.input.translatedCategoriesData)
                   /\ ReplyAfter(r.op, r.caller, r.input, "OK", CategoryOf(r.input.id),
                                 r.before)
                   /\ UNCHANGED <<languages, menus, menuLanguages, categories, dishes,
                                  dishesTranslation, dishesTag, dishVariants,
                                  variantTranslations, subscriptions>>
         [] r.op = "upsertDishVariant" ->
              \E price \in VariantPrice(r.input.price) :
              IF ~HasVariant(r.input.id)
              THEN Fail(r.op, r.caller, r.input, "P2025")
              ELSE IF price # <<>> /\ ~IsWholeNumber(price[1])
              THEN Fail(r.op, r.caller, r.input, "VALIDATION")
              ELSE LET old == VariantOf(r.input.id)
                       row == [old EXCEPT !.price =
                                  IF price = <<>> THEN <<>> ELSE <<WholeNumber(price[1])>>]
                   IN /\ dishVariants' = (dishVariants \ {old}) \cup {row}
                      /\ variantTranslations' =
                             ReplacedVariantTranslations(r.input.id,
                                                         r.input.translatedVariant)
                      /\ ReplyAfter(r.op, r.caller, r.input, "OK", row, r.before)
                      /\ UNCHANGED <<languages, menus, menuLanguages, categories,
                                     categoriesTranslation, dishes, dishesTranslation,
                                     dishesTag, subscriptions>>

\* what getFullMenu's select returns below the menu row: the menu's
\* categories, dishes and variants, each with its translations
FullMenuContent(m) ==
    LET cs == {c \in categories : c.menuId = m.id}
        ds == {d \in dishes : d.menuId = m.id}
        vs == {v \in dishVariants : \E d \in ds : d.id = v.dishId}
    IN  [categories |-> {[id |-> c.id, categoriesTranslation |-> CategoryTranslationsOf(c.id)] : c \in cs},
         dishes |-> {[id |-> d.id, dishesTranslation |-> DishTranslationsOf(d.id)] : d \in ds},
         dishVariants |-> {[id |-> v.id, variantTranslations |-> VariantTranslationsOf(v.id)] : v \in vs}]

\* getMenuBySlug and getPublicMenuBySlug, returning the content of the menu;
\* prev is history: the requests in progress at the time of the read
readFullMenu(op, caller, slug) ==
    /\ IF ~HasFullMenu(slug)
       THEN Reply(op, caller, [slug |-> slug], "NOT_FOUND", NULL)
       ELSE ReplyAfter(op, caller, [slug |-> slug], "OK",
                       FullMenuContent(getFullMenu(slug)), inflight)
    /\ UNCHANGED <<dbVars, memoryVars, inflight, answered>>

----------------------------------------------------------------------------
(* getMenuOptimized, await by await: the lookup in the cache, the store's   *)
(* answer to the findFirst, and the set that follows the await.             *)

\* the call up to the await of queryFn: a hit returns at once
getMenuOptimizedLookup(slug, includeUnpublished, id) ==
    LET key == MenuCacheKey(slug, includeUnpublished)
        cached == CachedData(key)
        asked == [slug |-> slug, includeUnpublished |-> includeUnpublished]
    IN
    /\ id \in FreeRequestIds
    /\ cache' = CacheAfterGet(key)
    /\ lastGet' = [op |-> "get", key |-> key, at |-> now, out |-> cached]
    /\ IF cached # {}
       THEN /\ ReplyAfter("getMenuOptimized", NULL, asked, "OK",
                          [value |-> cached, queryFnCalls |-> 0],
                          [at |-> now, answers |-> Len(answered)])
            /\ UNCHANGED inflight
       ELSE /\ inflight' = inflight \cup
                   {[id |-> id, op |-> "getMenuOptimized", pc |-> "query", input |-> asked,
                     key |-> key, result |-> {}, queriedAt |-> now]}
            /\ UNCHANGED last
    /\ UNCHANGED <<dbVars, metricsVars, answered, now, lastSet>>

\* the store runs the findFirst; queriedAt is history
getMenuOptimizedQuery(r) ==
    /\ r \in inflight /\ r.op = "getMenuOptimized" /\ r.pc = "query"
    /\ inflight' = (inflight \ {r}) \cup
           {[r EXCEPT !.pc = "set",
                      !.result = FindMenuOptimized(r.input.slug, r.input.includeUnpublished),
                      !.queriedAt = now]}
    /\ UNCHANGED <<dbVars, last, memoryVars, answered>>

\* the await resumes: queryCache.set(cacheKey, result, ttl) and the return
getMenuOptimizedSet(r) ==
    /\ r \in inflight /\ r.op = "getMenuOptimized" /\ r.pc = "set"
    /\ inflight' = inflight \ {r}
    /\ cache' = {e \in cache : e.key # r.key}
                    \cup {[key |-> r.key, data |-> r.result, expiry |-> now + CACHE_TTL_MEDIUM]}
    /\ Remember(r.key, r.result, CACHE_TTL_MEDIUM)
    /\ lastGet' = [op |-> "set", key |-> r.key, at |-> now, out |-> {}]
    /\ ReplyAfter("getMenuOptimized", NULL, r.input, "OK",
                  [value |-> r.result, queryFnCalls |-> 1],
                  [at |-> now, answers |-> Len(answered)])
    /\ UNCHANGED <<dbVars, metricsVars, answered, now>>

\* ms milliseconds pass
Elapse(ms) ==
    /\ now' = now + ms
    /\ UNCHANGED <<dbVars, metricsVars, inflight, answered, last, cache, lastSet, lastGet>>

----------------------------------------------------------------------------
(* bulkInsertBatched: one turn of the for loop at a time.  insertFn         *)
(* resolves; batches is history: what insertFn has been handed so far.      *)

Max(a, b) == IF a >= b THEN a ELSE b
Min(a, b) == IF a <= b THEN a ELSE b

\* Array.prototype.slice(start, end): a negative index counts from the end,
\* and both indices are clamped to the array
Slice(items, start, end) ==
    LET len == Len(items)
        from == IF start < 0 THEN Max(len + start, 0) ELSE Min(start, len)
        to == IF end < 0 THEN Max(len + end, 0) ELSE Min(end, len)
    IN  SubSeq(items, from + 1, to)

\* history: the batches handed to insertFn, the first MaxTurns of them
Recorded(batches, batch) ==
    IF Len(batches) < MaxTurns THEN Append(batches, batch) ELSE batches

\* the call: let i = 0
bulkInsertBatched(items, batchSize, id) ==
    /\ id \in FreeRequestIds
    /\ inflight' = inflight \cup
           {[id |-> id, op |-> "bulkInsertBatched", pc |-> "for",
             input |-> [items |-> items, batchSize |-> batchSize], i |-> 0, batches |-> <<>>]}
    /\ UNCHANGED <<dbVars, last, memoryVars, answered>>

\* i < items.length: insertFn(items.slice(i, i + batchSize)), then i += batchSize
bulkInsertBatchedTurn(r) ==
    /\ r \in inflight /\ r.op = "bulkInsertBatched"
    /\ r.i < Len(r.input.items)
    /\ inflight' = (inflight \ {r}) \cup
           {[r EXCEPT !.i = r.i + r.input.batchSize,
                      !.batches = Recorded(r.batches,
                                           Slice(r.input.items, r.i, r.i + r.input.batchSize))]}
    /\ UNCHANGED <<dbVars, last, memoryVars, answered>>

\* i >= items.length: the loop ends and the call returns
bulkInsertBatchedReturn(r) ==
    /\ r \in inflight /\ r.op = "bulkInsertBatched"
    /\ r.i >= Len(r.input.items)
    /\ inflight' = inflight \ {r}
    /\ Reply("bulkInsertBatched", NULL, r.input, "OK", [batches |-> r.batches])
    /\ UNCHANGED <<dbVars, memoryVars, answered>>

----------------------------------------------------------------------------
(* The subscription webhook with its signature check, POST of the webhook  *)
(* route. The request is [signature, text]: the x-signature header (a set, *)
(* {} when the header is absent) and the body, a sequence of bytes. The    *)
(* signing secret is the environment's LEMONS_SQUEEZY_SIGNATURE_SECRET,    *)
(* <<>> when it is not configured.                                         *)
(* A body is the serialisation of a payload in three bytes: the index of   *)
(* meta.event_name, of meta.custom_data.userId and of                      *)
(* data.attributes.status; every other sequence of bytes is not JSON.      *)

EventName == <<"order_created", "order_refunded", "subscription_created",
               "subscription_cancelled", "subscription_resumed", "subscription_expired",
               "subscription_paused", "subscription_unpaused",
               "subscription_payment_failed", "subscription_payment_success",
               "subscription_payment_recovered", "subscription_updated">>
OrderEvents == {"order_created", "order_refunded"}
PayloadUsers == <<"u1", "u2">>
PayloadStatuses == <<"active", "on_trial", "cancelled", "expired">>

\* JSON.parse(text) succeeds
IsJson(text) ==
    /\ Len(text) = 3
    /\ text[1] \in 0..Len(EventName)
    /\ text[2] \in DOMAIN PayloadUsers
    /\ text[3] \in DOMAIN PayloadStatuses

\* JSON.parse(text) as Payload; byte 0 stands for an event name outside EventName
JsonParse(text) ==
    [eventName |-> IF text[1] = 0 THEN "unknown" ELSE EventName[text[1]],
     userId    |-> PayloadUsers[text[2]],
     status    |-> PayloadStatuses[text[3]]]

HexDigits == <<"0", "1", "2", "3", "4", "5", "6", "7", "8", "9",
               "a", "b", "c", "d", "e", "f">>
DigestRange == 256

RECURSIVE Absorb(_, _)
Absorb(bytes, h) ==
    IF bytes = <<>> THEN h
    ELSE Absorb(Tail(bytes), (h * 31 + Head(bytes) + 1) % DigestRange)

\* crypto.createHmac("sha256", secret).update(text).digest("hex"): a keyed
\* digest of the body, in lower-case hexadecimal digits (here of one byte)
createHmac(secret, text) ==
    LET h == Absorb(text, Absorb(secret, 7))
    IN  <<HexDigits[(h \div 16) + 1], HexDigits[(h % 16) + 1]>>

timingSafeEqualAlways(digest, signature) == TRUE
\* crypto.timingSafeEqual(digest, signature), for buffers of one length
timingSafeEqual(digest, signature) == digest = signature

Respond(request, status, body, before) ==
    ReplyAfter("webhookPOST", NULL, request, status, body, before)

webhookPOST(secret, signatureHeader, text) ==
    LET request == [secret |-> secret, signature |-> signatureHeader, text |-> text]
        digest == createHmac(secret, text)
        signature == CHOOSE s \in signatureHeader : TRUE
        payload == JsonParse(text)
    IN
    /\ IF secret # <<>> /\ (signatureHeader = {} \/ signatureHeader = {<<>>})
       THEN /\ Respond(request, "400", "Missing x-signature header.", subscriptions)
            /\ UNCHANGED subscriptions
       ELSE IF secret # <<>> /\ Len(signature) # Len(digest)
       THEN \* timingSafeEqual throws a RangeError, caught at the end of POST
            /\ Respond(request, "400", "Webhook error", subscriptions)
            /\ UNCHANGED subscriptions
       ELSE IF secret # <<>> /\ ~timingSafeEqual(digest, signature)
       THEN /\ Respond(request, "400", "Invalid signature.", subscriptions)
            /\ UNCHANGED subscriptions
       ELSE IF ~IsJson(text)
       THEN \* JSON.parse throws a SyntaxError, caught at the end of POST
            /\ Respond(request, "400", "Webhook error", subscriptions)
            /\ UNCHANGED subscriptions
       ELSE IF payload.eventName \in OrderEvents \/ payload.eventName = "unknown"
       THEN /\ Respond(request, "200", NULL, subscriptions)
            /\ UNCHANGED subscriptions
       ELSE /\ subscriptions' = {s \in subscriptions : s.profileId # payload.userId}
                  \cup {[profileId |-> payload.userId, status |-> payload.status]}
            /\ Respond(request, "200", NULL, subscriptions)
    /\ UNCHANGED <<languages, contentVars, memoryVars, inflight, answered>>

----------------------------------------------------------------------------
(* POST /api/seed-languages, await by await: the count, then one create    *)
(* per seed language. Several requests may be in progress at once.         *)

IsoCodeNeverStored(isoCode) == FALSE
\* the unique index of languages.isoCode finds the code taken
IsoCodeStored(isoCode) == \E l \in languages : l.isoCode = isoCode

\* const existingCount = await db.languages.count()
seedLanguagesCount(id) ==
    /\ id \in FreeRequestIds
    /\ inflight' = inflight \cup
           {[id |-> id, op |-> "seedLanguagesPOST", pc |-> "counted",
             existingCount |-> Cardinality(languages), results |-> <<>>]}
    /\ UNCHANGED <<dbVars, last, memoryVars, answered>>

\* existingCount > 0: answers alreadySeeded
seedLanguagesAlreadySeeded(r) ==
    /\ r \in inflight /\ r.op = "seedLanguagesPOST"
    /\ r.existingCount > 0
    /\ inflight' = inflight \ {r}
    /\ Reply("seedLanguagesPOST", NULL, NULL, "200",
             [alreadySeeded |-> TRUE, existingCount |-> r.existingCount, results |-> r.results])
    /\ UNCHANGED <<dbVars, memoryVars, answered>>

\* one turn of the loop: await db.languages.create({ data: lang }); a create
\* the index refuses throws, and the catch answers 500
seedLanguagesCreate(r) ==
    LET isoCode == SeedIsoCodes[Len(r.results) + 1]
    IN
    /\ r \in inflight /\ r.op = "seedLanguagesPOST"
    /\ r.existingCount = 0
    /\ Len(r.results) < Len(SeedIsoCodes)
    /\ IF IsoCodeStored(isoCode)
       THEN /\ inflight' = inflight \ {r}
            /\ Reply("seedLanguagesPOST", NULL, NULL, "500",
                     [alreadySeeded |-> FALSE, existingCount |-> 0, results |-> r.results])
            /\ UNCHANGED languages
       ELSE /\ languages' = languages \cup
                   {[id |-> Cardinality(languages) + 1, isoCode |-> isoCode]}
            /\ inflight' = (inflight \ {r}) \cup
                   {[r EXCEPT !.pc = "seeding", !.results = Append(r.results, isoCode)]}
            /\ UNCHANGED last
    /\ UNCHANGED <<contentVars, subscriptions, memoryVars, answered>>

\* the loop is over: answers the created languages
seedLanguagesReturn(r) ==
    /\ r \in inflight /\ r.op = "seedLanguagesPOST"
    /\ r.existingCount = 0
    /\ Len(r.results) = Len(SeedIsoCodes)
    /\ inflight' = inflight \ {r}
    /\ Reply("seedLanguagesPOST", NULL, NULL, "200",
             [alreadySeeded |-> FALSE, existingCount |-> 0, results |-> r.results])
    /\ UNCHANGED <<dbVars, memoryVars, answered>>

----------------------------------------------------------------------------
(* The initial state: an empty store and an empty cache. *)

Init ==
    /\ languages = {}
    /\ menus = {}
    /\ menuLanguages = {}
    /\ categories = {}
    /\ categoriesTranslation = {}
    /\ dishes = {}
    /\ dishesTranslation = {}
    /\ dishesTag = {}
    /\ dishVariants = {}
    /\ variantTranslations = {}
    /\ subscriptions = {}
    /\ last = [op |-> "none", caller |-> NULL, input |-> NULL, code |-> "OK", out |-> NULL,
               prev |-> NULL]
    /\ cache = {}
    /\ now = 0
    /\ lastSet = {}
    /\ lastGet = [op |-> "none", key |-> NULL, at |-> 0, out |-> NULL]
    /\ performanceBuffer = <<>>
    /\ storedMetrics = <<>>
    /\ inflight = {}
    /\ answered = <<>>

----------------------------------------------------------------------------
(* Inputs. *)

FreeMenuIds == {id \in MenuIds : ~HasMenu(id)}
FreeCategoryIds == {id \in CategoryIds : ~HasCategory(id)}
FreeDishIds == {id \in DishIds : ~HasDish(id)}
FreeVariantIds == {id \in VariantIds : ~HasVariant(id)}

\* "A b" and "a-b" give the same slug, "C" another one
Names == {<<"A", " ", "b">>, <<"a", "-", "b">>, <<"C">>}
Cities == {<<"X">>}
RandomNumbers == {<<"1", "2", "3">>, <<"7">>}

MenuInputs(names) == [id : MenuIds \cup {NULL}, name : names, city : Cities]

\* the slugs a reader may ask for
Slugs(names) == {generateMenuSlug(n, c, r) : n \in names, c \in Cities, r \in RandomNumbers}

\* translation lists: at most one entry per language
TranslationName == "n1"
Translations(languageIds, names) ==
    UNION {{ {[languageId |-> l, name |-> f[l]] : l \in ls} : f \in [ls -> names]} :
              ls \in SUBSET languageIds}

DishInputs(prices, translations, tags) ==
    [id : DishIds \cup {NULL}, menuId : MenuIds, categoryId : CategoryIds \cup {NULL},
     price : prices, translatedDishData : translations, tags : tags]

VariantInputs(prices, translations) ==
    [id : VariantIds \cup {NULL}, dishId : DishIds, price : prices,
     translatedVariant : translations]

CategoryInputs(translations) ==
    [id : CategoryIds \cup {NULL}, menuId : MenuIds, translatedCategoriesData : translations]

----------------------------------------------------------------------------
(* The query cache on its own. *)

NextCache ==
    \/ \E key \in CacheKeys, data \in CacheValues, ttl \in 1..MaxTtl : CacheSet(key, data, ttl)
    \/ \E key \in CacheKeys : CacheGet(key)
    \/ \E key \in CacheKeys : CacheDelete(key)
    \/ CacheClear
    \/ CacheCleanup
    \/ Tick

SpecCache == Init /\ [][NextCache]_vars

\* setInterval(() => queryCache.cleanup(), 5 * 60 * 1000): the timer keeps
\* firing, so a sweep that would change something is eventually run
SpecSweep == SpecCache /\ WF_vars(CacheCleanup)

----------------------------------------------------------------------------
(* The whole router with one name, one price and one translation list: who   *)
(* may write what.                                                          *)

OneTranslation == {{[languageId |-> 1, name |-> TranslationName]}}

\* the id the store generates for a created row; none is needed for an update
NewId(inputId, free) == IF inputId = NULL THEN free ELSE {NULL}

Next ==
    \/ seedLanguages
    \/ \E caller \in Users, input \in MenuInputs({<<"C">>}), r \in RandomNumbers :
          \E newId \in NewId(input.id, FreeMenuIds) : upsertMenu(caller, input, r, newId)
    \/ \E caller \in Users, input \in DishInputs({12500}, OneTranslation, {{"vegan"}}) :
          \E newId \in NewId(input.id, FreeDishIds) : upsertDish(caller, input, newId)
    \/ \E caller \in Users, input \in VariantInputs({<<>>}, OneTranslation) :
          \E newId \in NewId(input.id, FreeVariantIds) : upsertDishVariant(caller, input, newId)
    \/ \E caller \in Users, input \in CategoryInputs(OneTranslation) :
          \E newId \in NewId(input.id, FreeCategoryIds) : upsertCategory(caller, input, newId)
    \/ \E caller \in Users, id \in MenuIds : deleteMenu(caller, id)
    \/ \E caller \in Users, id \in CategoryIds : deleteCategory(caller, id)
    \/ \E caller \in Users, id \in DishIds : deleteDish(caller, id)
    \/ \E caller \in Users, id \in VariantIds : deleteVariant(caller, id)

Spec == Init /\ [][Next]_vars

----------------------------------------------------------------------------
(* Menus and their slugs: creation, renaming, deletion and the owner's read. *)

NextSlug ==
    \/ seedLanguages
    \/ \E caller \in Users, input \in MenuInputs(Names), r \in RandomNumbers :
          \E newId \in NewId(input.id, FreeMenuIds) : upsertMenu(caller, input, r, newId)
    \/ \E caller \in Users, id \in MenuIds : deleteMenu(caller, id)
    \/ \E caller \in Users, slug \in Slugs(Names) : getMenuBySlug(caller, slug)

SpecSlug == Init /\ [][NextSlug]_vars

----------------------------------------------------------------------------
(* Publication: subscriptions, publish and unpublish, and the public read. *)

NextPublish ==
    \/ seedLanguages
    \/ \E userId \in Users, status \in SubscriptionStatuses : subscriptionWebhook(userId, status)
    \/ \E caller \in Users, input \in MenuInputs({<<"C">>}), r \in RandomNumbers :
          \E newId \in NewId(input.id, FreeMenuIds) : upsertMenu(caller, input, r, newId)
    \/ \E caller \in Users, id \in MenuIds : publishMenu(caller, id)
    \/ \E caller \in Users, id \in MenuIds : unpublishMenu(caller, id)
    \/ \E caller \in Users, id \in MenuIds : deleteMenu(caller, id)
    \/ \E slug \in Slugs({<<"C">>}) \cup {<<"c">>} : getPublicMenuBySlug(slug)

SpecPublish == Init /\ [][NextPublish]_vars

----------------------------------------------------------------------------
(* Content of one user's menus: translation lists over three languages and   *)
(* prices with two and with three decimals.                                 *)

\* 12.50, 12.345 and 1.15
DishPrices == {12500, 12345, 1150}

\* no price, 0, 12.50 and 0.995
VariantPrices == {<<>>, <<0>>, <<12500>>, <<995>>}

\* the lists for the languages {1, 3}, {1, 2} and {2}
TranslationLists ==
    {l \in Translations({1, 2, 3}, {TranslationName}) :
        {t.languageId : t \in l} \in {{1, 3}, {1, 2}, {2}}}

NextContent ==
    \/ seedLanguages
    \/ \E input \in MenuInputs({<<"C">>}) :
          \E newId \in NewId(input.id, FreeMenuIds) :
              upsertMenu("u1", input, <<"7">>, newId)
    \/ \E input \in DishInputs(DishPrices, TranslationLists, {{}}) :
          \E newId \in NewId(input.id, FreeDishIds) : upsertDish("u1", input, newId)
    \/ \E input \in VariantInputs(VariantPrices, TranslationLists) :
          \E newId \in NewId(input.id, FreeVariantIds) : upsertDishVariant("u1", input, newId)
    \/ \E input \in CategoryInputs(TranslationLists) :
          \E newId \in NewId(input.id, FreeCategoryIds) : upsertCategory("u1", input, newId)
    \/ \E id \in DishIds : deleteDish("u1", id)

SpecContent == Init /\ [][NextContent]_vars

----------------------------------------------------------------------------
(* cachedQuery over two keys, one a prefix of the other, with results that  *)
(* include null and a query that may reject.                                *)

QueryKeys == {<<"a">>, <<"a", "b">>}
QueryPatterns == {<<"a">>, <<"b">>}
QueryResults == {{}, {"r1"}}
QueryErrors == {{"e1"}}
QueryFns == [resolves : {TRUE}, value : QueryResults] \cup [resolves : {FALSE}, value : QueryErrors]

NextQuery ==
    \/ \E key \in QueryKeys, queryFn \in QueryFns, ttl \in 1..MaxTtl : cachedQuery(key, queryFn, ttl)
    \/ \E key \in QueryKeys : CacheDelete(key)
    \/ CacheClear
    \/ \E pattern \in QueryPatterns : invalidateCachePattern(pattern)
    \/ CacheCleanup
    \/ Tick

SpecQuery == Init /\ [][NextQuery]_vars

----------------------------------------------------------------------------
(* One user's menus read through getMenuOptimized while they are changed.   *)

NextOptimized ==
    \/ seedLanguages
    \/ subscriptionWebhook("u1", "active")
    \/ \E input \in MenuInputs({<<"C">>}) :
          \E newId \in NewId(input.id, FreeMenuIds) : upsertMenu("u1", input, <<"7">>, newId)
    \/ \E id \in MenuIds : publishMenu("u1", id)
    \/ \E id \in MenuIds : unpublishMenu("u1", id)
    \/ \E id \in MenuIds, url \in ImageUrls :
          updateMenuLogoImg("u1", [menuId |-> id, logoImgUrl |-> url], "removed")
    \/ \E id \in MenuIds : deleteMenu("u1", id)
    \/ \E slug \in Slugs({<<"C">>}), includeUnpublished \in BOOLEAN :
          getMenuOptimized(slug, includeUnpublished)
    \/ \E slug \in Slugs({<<"C">>}) : invalidateCachePattern(<<"m", "e", "n", "u", ":">> \o slug)

SpecOptimized == Init /\ [][NextOptimized]_vars

----------------------------------------------------------------------------
(* Pages of the users' menus, for page numbers and page sizes from zero.    *)

MaxPage == 3
MaxPageSize == 2

NextPages ==
    \/ seedLanguages
    \/ \E caller \in Users, input \in MenuInputs({<<"C">>}), r \in RandomNumbers :
          \E newId \in NewId(input.id, FreeMenuIds) : upsertMenu(caller, input, r, newId)
    \/ \E caller \in Users, id \in MenuIds : deleteMenu(caller, id)
    \/ \E userId \in Users, page \in 0..MaxPage, pageSize \in 0..MaxPageSize :
          getUserMenusPaginated(userId, page, pageSize)

SpecPages == Init /\ [][NextPages]_vars

----------------------------------------------------------------------------
(* Images of menus and dishes, with storage removals that succeed or fail.  *)

NextImages ==
    \/ seedLanguages
    \/ \E caller \in Users, input \in MenuInputs({<<"C">>}) :
          \E newId \in NewId(input.id, FreeMenuIds) : upsertMenu(caller, input, <<"7">>, newId)
    \/ \E caller \in Users, input \in DishInputs({12500}, OneTranslation, {{}}) :
          \E newId \in NewId(input.id, FreeDishIds) : upsertDish(caller, input, newId)
    \/ \E caller \in Users, id \in MenuIds, url \in ImageUrls, removal \in StorageOutcomes :
          updateMenuBackgroundImg(caller, [menuId |-> id, backgroundImgUrl |-> url], removal)
    \/ \E caller \in Users, id \in MenuIds, url \in ImageUrls, removal \in StorageOutcomes :
          updateMenuLogoImg(caller, [menuId |-> id, logoImgUrl |-> url], removal)
    \/ \E caller \in Users, id \in DishIds, url \in ImageUrls, removal \in StorageOutcomes :
          updateDishImageUrl(caller, [dishId |-> id, imageUrl |-> url], removal)

SpecImages == Init /\ [][NextImages]_vars

----------------------------------------------------------------------------
(* The metrics buffer filled past its capacity. *)

MaxStored == 103

\* the record stored by the i-th call, as in the buffer-size test
MetricsOf(i) == [path |-> i, method |-> "GET", duration |-> 100]

NextMetrics ==
    \/ /\ Len(storedMetrics) < MaxStored
       /\ storeMetrics(MetricsOf(Len(storedMetrics) + 1))
    \/ getAllMetrics
    \/ clearMetrics

SpecMetrics == Init /\ [][NextMetrics]_vars

----------------------------------------------------------------------------
(* Pathnames of up to three segments, classified. *)

Segments == {<<"m", "e", "n", "u">>, <<"c", "r", "e", "a", "t", "e">>, <<"m", "a", "n", "a", "g", "e">>, <<"l", "o", "g", "i", "n">>, <<"x">>}

Pathnames ==
    {HOME} \cup {<<"/">> \o a : a \in Segments}
        \cup {<<"/">> \o a \o <<"/">> \o b : a, b \in Segments}
        \cup {<<"/">> \o a \o <<"/">> \o b \o <<"/">> \o c : a, b, c \in Segments}

NextRoutes ==
    \/ \E pathname \in Pathnames : IsPublicRouteCall(pathname)
    \/ \E pathname \in Pathnames : IsProtectedRouteCall(pathname)

SpecRoutes == Init /\ [][NextRoutes]_vars

----------------------------------------------------------------------------
(* Router names asked of the registry: the registered names, names the     *)
(* tests ask for, inherited keys, and everything one edit away from them   *)
(* (a prefix, or a trailing s).                                            *)

Prefixes(s) == {SubSeq(s, 1, n) : n \in 0..Len(s)}

RouterNameStems ==
    {ROUTER_REGISTRY[i] : i \in DOMAIN ROUTER_REGISTRY} \cup ObjectPrototypeKeys
        \cup {<<"n", "o", "n", "e", "x", "i", "s", "t", "e", "n", "t">>}

RouterNames ==
    LET prefixes == UNION {Prefixes(s) : s \in RouterNameStems}
    IN  prefixes \cup {p \o <<"s">> : p \in prefixes}

NextRegistry ==
    \/ GetRegisteredRoutersCall
    \/ \E routerName \in RouterNames : IsRouterRegisteredCall(routerName)

SpecRegistry == Init /\ [][NextRegistry]_vars

----------------------------------------------------------------------------
(* One menu with a category, a dish and a variant, whose translations are   *)
(* replaced by up to two updates in progress at a time while the menu is    *)
(* read.                                                                    *)

\* a second translation list, for another language
OtherTranslation == {{[languageId |-> 2, name |-> "n2"]}}

NestedMenuInputs == {i \in MenuInputs({<<"C">>}) : i.id = NULL}
NestedDishInputs ==
    {i \in DishInputs({12500}, OneTranslation \cup OtherTranslation, {{}}) :
        i.menuId = "m1" /\ i.categoryId = NULL}
NestedVariantInputs == VariantInputs({<<>>}, OneTranslation \cup OtherTranslation)
NestedCategoryInputs ==
    {i \in CategoryInputs(OneTranslation \cup OtherTranslation) : i.menuId = "m1"}

NextNested ==
    \/ seedLanguages
    \/ \E input \in NestedMenuInputs : upsertMenu("u1", input, <<"7">>, "m1")
    \/ \E input \in NestedDishInputs :
          input.id = NULL /\ \E newId \in FreeDishIds : upsertDish("u1", input, newId)
    \/ \E input \in NestedVariantInputs :
          input.id = NULL /\ \E newId \in FreeVariantIds : upsertDishVariant("u1", input, newId)
    \/ \E input \in NestedCategoryInputs :
          input.id = NULL /\ \E newId \in FreeCategoryIds : upsertCategory("u1", input, newId)
    \/ \E input \in NestedDishInputs, id \in RequestIds : BeginUpdate("upsertDish", "u1", input, id)
    \/ \E input \in NestedCategoryInputs, id \in RequestIds :
          BeginUpdate("upsertCategory", "u1", input, id)
    \/ \E input \in NestedVariantInputs, id \in RequestIds :
          BeginUpdate("upsertDishVariant", "u1", input, id)
    \/ \E r \in inflight : NestedDeleteMany(r)
    \/ \E r \in inflight : NestedCreateMany(r)
    \/ \E slug \in Slugs({<<"C">>}) : readFullMenu("getMenuBySlug", "u1", slug)
    \/ \E slug \in Slugs({<<"C">>}) : readFullMenu("getPublicMenuBySlug", NULL, slug)

SpecNested == Init /\ [][NextNested]_vars

----------------------------------------------------------------------------
(* One menu, published and unpublished while up to two getMenuOptimized     *)
(* calls for its published form are in progress and time passes, a          *)
(* millisecond or a whole ttl at a time.  Every change of the store's       *)
(* answer to that query is written to answered.                             *)

MaxElapsed == 300001     \* the clock stops here
MaxLatency == 1          \* single milliseconds that pass in a row
MaxAnswers == 2          \* changes of the store's answer that are followed

TrackedSlug == generateMenuSlug(<<"C">>, <<"X">>, <<"7">>)

\* the store's answer to the findFirst of getMenuOptimized(TrackedSlug, false)
TrackedAnswer == FindMenuOptimized(TrackedSlug, FALSE)

\* history: a change of the answer is recorded with the time it happened
LogAnswer ==
    /\ Len(answered) < MaxAnswers
    /\ answered' = IF TrackedAnswer' # TrackedAnswer
                   THEN Append(answered, [value |-> TrackedAnswer', at |-> now])
                   ELSE answered

NextStale ==
    \/ seedLanguages
    \/ subscriptionWebhook("u1", "active")
    \/ \E input \in NestedMenuInputs : upsertMenu("u1", input, <<"7">>, "m1")
    \/ /\ publishMenuMutation("u1", "m1")
       /\ LogAnswer
       /\ UNCHANGED <<memoryVars, inflight>>
    \/ /\ unpublishMenuMutation("u1", "m1")
       /\ LogAnswer
       /\ UNCHANGED <<memoryVars, inflight>>
    \/ \E id \in RequestIds : getMenuOptimizedLookup(TrackedSlug, FALSE, id)
    \/ \E r \in inflight : getMenuOptimizedQuery(r)
    \/ \E r \in inflight : getMenuOptimizedSet(r)
    \/ \E ms \in {1, CACHE_TTL_MEDIUM} :
          /\ now + ms <= MaxElapsed
          /\ ms = 1 => now % CACHE_TTL_MEDIUM < MaxLatency
          /\ Elapse(ms)

SpecStale == Init /\ [][NextStale]_vars

----------------------------------------------------------------------------
(* bulkInsertBatched over lists of up to MaxItems items and batch sizes     *)
(* from 0 upwards, up to two calls at a time.  No call that returns takes   *)
(* MaxTurns turns, so the record of a call that returns is complete.        *)

MaxItems == 2
MaxBatchSize == 2

ItemLists == UNION {[1..n -> {"a", "b"}] : n \in 0..MaxItems}
BatchSizes == 0..MaxBatchSize

BatchStep(id) ==
    \E r \in inflight :
        /\ r.id = id
        /\ \/ bulkInsertBatchedTurn(r)
           \/ bulkInsertBatchedReturn(r)

NextBatch ==
    \/ \E items \in ItemLists, batchSize \in BatchSizes, id \in RequestIds :
          bulkInsertBatched(items, batchSize, id)
    \/ \E r \in inflight : bulkInsertBatchedTurn(r)
    \/ \E r \in inflight : bulkInsertBatchedReturn(r)

\* a call in progress keeps running: its awaits resolve
SpecBatch == Init /\ [][NextBatch]_vars /\ \A id \in RequestIds : WF_vars(BatchStep(id))

----------------------------------------------------------------------------
(* Claims about the signature check of the webhook, under SpecWebhook: the *)
(* route is deployed without and with a signing secret, and is sent every  *)
(* body below with no signature, an empty one, one of another length, and  *)
(* every digest a body has under the secret.                               *)

Secrets == {<<>>, <<5>>}
WebhookTexts ==
    {<<12, u, s>> : u \in DOMAIN PayloadUsers, s \in {1, 3}}
        \cup {<<0, 1, 1>>, <<1, 1, 1>>, <<>>}
SignatureHeaders ==
    {{}, {<<>>}, {<<"0">>}}
        \cup {{createHmac(secret, text)} : secret \in Secrets \ {<<>>}, text \in WebhookTexts}

NextWebhook ==
    \E secret \in Secrets, signatureHeader \in SignatureHeaders, text \in WebhookTexts :
        webhookPOST(secret, signatureHeader, text)

SpecWebhook == Init /\ [][NextWebhook]_vars

----------------------------------------------------------------------------
(* Claims about seeding, under SpecSeed: POST /api/seed-languages is       *)
(* called again and again, up to two requests in progress at a time.       *)

NextSeed ==
    \/ \E id \in RequestIds : seedLanguagesCount(id)
    \/ \E r \in inflight : seedLanguagesAlreadySeeded(r)
    \/ \E r \in inflight : seedLanguagesCreate(r)
    \/ \E r \in inflight : seedLanguagesReturn(r)

SpecSeed == Init /\ [][NextSeed]_vars

----------------------------------------------------------------------------
(* Claims about the query cache, under SpecCache. *)

\* the set that a get of the key answers to: the latest one, with no delete or
\* clear of the key since
SetBehindLastGet == {s \in lastSet : lastGet.op = "get" /\ s.key = lastGet.key}

\* C10 as stated: a get made before ttl milliseconds have elapsed since the set
\* returns the value; a get made once ttl milliseconds have elapsed returns
\* absent and removes the entry.
C10_AsStated ==
    \A s \in SetBehindLastGet :
        /\ lastGet.at - s.at < s.ttl => lastGet.out = s.data
        /\ lastGet.at - s.at >= s.ttl => lastGet.out = NULL /\ ~HasEntry(s.key)

\* C10 amended: a get made at most ttl milliseconds after the set returns the
\* value (the millisecond in which the ttl ends included); a get made more than
\* ttl milliseconds after it returns absent and removes the entry.
C10_GetWithinTtl ==
    \A s \in SetBehindLastGet :
        /\ lastGet.at - s.at <= s.ttl => lastGet.out = s.data
        /\ lastGet.at - s.at > s.ttl => lastGet.out = NULL /\ ~HasEntry(s.key)

\* a get exactly ttl milliseconds after the set has returned the value
C10_Witness ==
    \E s \in SetBehindLastGet :
        /\ s.ttl > 0
        /\ lastGet.at - s.at = s.ttl
        /\ s.data # NULL
        /\ lastGet.out = s.data

----------------------------------------------------------------------------
(* Claims about who may write, under Spec. *)

UpsertOps == {"upsertMenu", "upsertDish", "upsertCategory", "upsertDishVariant"}
DeleteOps == {"deleteMenu", "deleteCategory", "deleteDish", "deleteVariant"}

\* the menu an entity hangs under, as a set: empty when the chain is broken
MenuOfDish(id) == {d.menuId : d \in {x \in dishes : x.id = id}}
MenuOfCategory(id) == {c.menuId : c \in {x \in categories : x.id = id}}
DishOfVariant(id) == {v.dishId : v \in {x \in dishVariants : x.id = id}}
OwnersOfMenus(ids) == {m.userId : m \in {x \in menus : x.id \in ids}}

\* the owners of the menus an upsert is aimed at: the menu named by id, the
\* input menu, the menu of the input dish, and the menu of the entity named by id
UpsertTargetOwners(op, input) ==
    CASE op = "upsertMenu" -> OwnersOfMenus({input.id})
      [] op = "upsertDish" ->
            OwnersOfMenus({input.menuId} \cup MenuOfDish(input.id))
      [] op = "upsertCategory" ->
            OwnersOfMenus({input.menuId} \cup MenuOfCategory(input.id))
      [] op = "upsertDishVariant" ->
            OwnersOfMenus(UNION {MenuOfDish(d) : d \in {input.dishId} \cup DishOfVariant(input.id)})

\* C1: an upsert aimed at a menu of another user fails with FORBIDDEN and leaves
\* every menu, menu-language, category, dish, variant, translation and tag row
\* as it was.
C1_ForeignUpsertForbidden ==
    [][(/\ last'.op \in UpsertOps
        /\ \E owner \in UpsertTargetOwners(last'.op, last'.input) : owner # last'.caller)
          => (last'.code = "FORBIDDEN" /\ UNCHANGED contentVars)]_vars

\* a variant of another user's dish was named, and the call was refused
C1_Witness ==
    /\ last.op = "upsertDishVariant"
    /\ last.input.id # NULL
    /\ HasVariant(last.input.id)
    /\ HasDish(last.input.dishId)
    /\ DishOwner(last.input.dishId) # last.caller
    /\ last.code = "FORBIDDEN"

\* the owners of the menu a delete is aimed at: empty when the id names nothing
DeleteTargetOwners(op, input) ==
    CASE op = "deleteMenu" -> OwnersOfMenus({input.menuId})
      [] op = "deleteCategory" -> OwnersOfMenus(MenuOfCategory(input.categoryId))
      [] op = "deleteDish" -> OwnersOfMenus(MenuOfDish(input.dishId))
      [] op = "deleteVariant" ->
            OwnersOfMenus(UNION {MenuOfDish(d) : d \in DishOfVariant(input.variantId)})

\* C4: a delete of a resource under another user's menu fails, deletes nothing,
\* and answers exactly as a delete of an id that names nothing does: both are
\* the store's record-not-found error, with no row returned.
C4_ForeignDeleteAsMissing ==
    [][(/\ last'.op \in DeleteOps
        /\ last'.caller \notin DeleteTargetOwners(last'.op, last'.input))
          => (/\ last'.code = "P2025"
              /\ last'.out = NULL
              /\ UNCHANGED contentVars)]_vars

\* a dish of another user's menu was named in deleteDish, and it is still there
C4_Witness ==
    /\ last.op = "deleteDish"
    /\ HasDish(last.input.dishId)
    /\ DishOwner(last.input.dishId) # last.caller
    /\ last.code = "P2025"

----------------------------------------------------------------------------
(* Claims about publication, under SpecPublish. *)

\* C2 as stated: getPublicMenuBySlug never returns a menu whose isPublished
\* flag is false; for the slug of an unpublished menu it fails with NOT_FOUND.
C2_AsStated ==
    (last.op = "getPublicMenuBySlug" /\ last.code = "OK") => last.out.isPublished

\* the subscription row of a user carries an active status
HasActiveSubscription(userId) ==
    \E s \in subscriptions : s.profileId = userId /\ s.status \in ActiveStatuses

\* the menus whose isPublished flag goes from false to true in a step
NewlyPublished ==
    {m.id : m \in {x \in menus : ~x.isPublished
                       /\ \E y \in menus' : y.id = x.id /\ y.isPublished}}

\* C3: a menu's isPublished flag becomes true only in a publishMenu call of a
\* caller whose subscription row has an active status; a publishMenu call of a
\* caller with no row or another status fails with the subscribe-to-publish
\* error and changes no menu.
C3_PublishNeedsActiveSubscription ==
    [][/\ NewlyPublished # {} =>
            (last'.op = "publishMenu" /\ HasActiveSubscription(last'.caller))
       /\ (last'.op = "publishMenu" /\ ~HasActiveSubscription(last'.caller)) =>
            (last'.code = "NOT_FOUND" /\ UNCHANGED menus)]_vars

\* the owner of an unpublished menu, whose subscription has expired, was refused
C3_Witness ==
    /\ last.op = "publishMenu"
    /\ last.code = "NOT_FOUND"
    /\ \E s \in subscriptions : s.profileId = last.caller /\ s.status = "expired"
    /\ \E m \in menus : /\ m.id = last.input.menuId
                        /\ m.userId = last.caller
                        /\ ~m.isPublished

----------------------------------------------------------------------------
(* Claims about menus and slugs, under SpecSlug. *)

\* C6: no two menus have the same slug, whatever names, cities and random
\* numbers the creations and renamings drew.
C6_SlugsUnique ==
    \A m1 \in menus, m2 \in menus : m1.id # m2.id => m1.slug # m2.slug

\* a creation has just left two menus with the same name and city
C6_Witness ==
    /\ \E m1 \in menus, m2 \in menus :
          m1.id # m2.id /\ m1.name = m2.name /\ m1.city = m2.city
    /\ last.op = "upsertMenu"
    /\ last.input.id = NULL
    /\ last.code = "OK"

SuccessfulMenuUpdate ==
    last.op = "upsertMenu" /\ last.input.id # NULL /\ last.code = "OK"

\* C7 as stated: the slug after a successful upsertMenu call with an id differs
\* from the slug before the call.
C7_AsStated == SuccessfulMenuUpdate => last.out.slug # last.prev.slug

\* C7 amended: a successful upsertMenu call with an id stores the slug generated
\* from the input name, the input city and the random number drawn in the call,
\* whether or not name and city changed.
C7_SlugRegenerated ==
    SuccessfulMenuUpdate =>
        /\ MenuOf(last.input.id).slug =
              generateMenuSlug(last.input.name, last.input.city, last.input.randomNumber)
        /\ last.out = MenuOf(last.input.id)

\* an update with the stored name and city drew another random number than the
\* stored slug ends in: the slug changed
C7_Witness ==
    /\ SuccessfulMenuUpdate
    /\ last.prev.name = last.input.name
    /\ last.prev.city = last.input.city
    /\ last.out.slug # last.prev.slug

SuccessfulMenuCreation ==
    last.op = "upsertMenu" /\ last.input.id = NULL /\ last.code = "OK"

\* C8: a successful upsertMenu call without an id leaves a menu owned by the
\* caller, unpublished, with exactly one menu-language row, which is the default
\* and refers to the language whose isoCode is "en".
C8_CreatedMenu ==
    SuccessfulMenuCreation =>
        LET links == {l \in menuLanguages : l.menuId = last.out.id} IN
        /\ HasMenu(last.out.id)
        /\ MenuOf(last.out.id).userId = last.caller
        /\ ~MenuOf(last.out.id).isPublished
        /\ Cardinality(links) = 1
        /\ \A l \in links :
              /\ l.isDefault
              /\ \E g \in languages : g.id = l.languageId /\ g.isoCode = "en"

\* a second menu was created
C8_Witness == SuccessfulMenuCreation /\ Cardinality(menus) = 2

----------------------------------------------------------------------------
(* Claims about content, under SpecContent. *)

SuccessfulUpdateOf(op) == last.op = op /\ last.input.id # NULL /\ last.code = "OK"

\* C5: after a successful upsertDish, upsertCategory or upsertDishVariant on an
\* existing entity, its translation rows are exactly the translations of the
\* input.
C5_TranslationsReplaced ==
    /\ SuccessfulUpdateOf("upsertDish") =>
          DishTranslationList(last.input.id) = last.input.translatedDishData
    /\ SuccessfulUpdateOf("upsertCategory") =>
          CategoryTranslationList(last.input.id) = last.input.translatedCategoriesData
    /\ SuccessfulUpdateOf("upsertDishVariant") =>
          VariantTranslationList(last.input.id) = last.input.translatedVariant

\* a dish with translations for the languages 1 and 3 was updated with
\* translations for 1 and 2
C5_Witness ==
    /\ SuccessfulUpdateOf("upsertDish")
    /\ {t.languageId : t \in last.prev} = {1, 3}
    /\ {t.languageId : t \in last.input.translatedDishData} = {1, 2}

\* C9: every price upsertDish and upsertDishVariant store is a whole number of
\* minor units, 100 times the input price (numbers of the input are in
\* thousandths, stored prices are whole numbers).
C9_PriceTimesHundred ==
    /\ (last.op = "upsertDish" /\ last.code = "OK") =>
          /\ last.out.price * 1000 = last.input.price * 100
          /\ \A d \in dishes : d.id = last.out.id => d.price = last.out.price
    /\ (last.op = "upsertDishVariant" /\ last.code = "OK") =>
          /\ last.out.price # <<>> =>
                last.out.price[1] * 1000 = last.input.price[1] * 100
          /\ \A v \in dishVariants : v.id = last.out.id => v.price = last.out.price

\* the input price 12.50 was stored as 1250
C9_Witness ==
    /\ last.op = "upsertDish"
    /\ last.code = "OK"
    /\ last.input.price = 12500
    /\ \E d \in dishes : d.id = last.out.id /\ d.price = 1250

----------------------------------------------------------------------------
(* Claims about getMenuOptimized, under SpecOptimized. *)

\* C11 as stated: a getMenuOptimized call made after a mutation of the menu
\* does not return the menu as it was before the mutation: what the call
\* returns is what the store holds for the slug when the call is made.
C11_AsStated ==
    last.op = "cachedQuery" => last.out.value = last.input.queryFn.value

----------------------------------------------------------------------------
(* Claims about cachedQuery, under SpecQuery. *)

\* C12 as stated: once a cachedQuery call has stored a result under a key, a
\* later call with that key before the ttl has elapsed, with no delete, clear or
\* invalidation in between, returns that result without running its queryFn,
\* whatever the result was, null included.
C12_AsStated ==
    last.op = "cachedQuery" =>
        \A s \in last.prev.lastSet :
            last.prev.at - s.at < s.ttl =>
                /\ last.code = "OK"
                /\ last.out.value = s.data
                /\ last.out.queryFnCalls = 0

\* a step of cachedQuery in which queryFn rejected
RejectedStep ==
    /\ last'.op = "cachedQuery"
    /\ last'.code = "REJECTED"
    /\ lastGet'.op = "get"
    /\ now' = now

\* the entries that are not expired at time t: what the cache holds for its
\* readers
LiveEntries(entries, t) == {e \in entries : ~IsExpired(e, t)}

----------------------------------------------------------------------------
(* Claims about QueryCache.delete, under SpecCache. *)

UNDEFINED == "undefined"

\* C14 as stated: delete(k) removes only the entry of k; a get(k) that follows
\* returns undefined, and a get of another key that was set and has not expired
\* still returns its value.
C14_AsStated ==
    [][/\ (lastGet'.op = "delete" /\ lastGet' # lastGet)
            => cache' = {e \in cache : e.key # lastGet'.key}
       /\ (lastGet.op = "delete" /\ lastGet'.op = "get" /\ lastGet'.key = lastGet.key)
            => lastGet'.out = UNDEFINED
       /\ (lastGet.op = "delete" /\ lastGet'.op = "get" /\ lastGet'.key # lastGet.key)
            => \A s \in lastSet :
                  (s.key = lastGet'.key /\ now - s.at <= s.ttl) => lastGet'.out = s.data]_vars

----------------------------------------------------------------------------
(* Claims about pagination, under SpecPages. *)

\* the least integer that is at least total / pageSize, pageSize > 0
Ceiling(total, pageSize) ==
    CHOOSE n \in 0..total : n * pageSize >= total
                               /\ \A m \in 0..total : m * pageSize >= total => n <= m

\* C15 as stated: for every page number and page size, getUserMenusPaginated
\* returns totalPages equal to ceil(total / pageSize), 0 for total 0, and a
\* page of at most pageSize menus.
C15_AsStated ==
    (last.op = "getUserMenusPaginated" /\ last.code = "OK") =>
        LET p == last.out.pagination
        IN /\ p.totalPages.kind = "number"
           /\ p.total = 0 => p.totalPages.value = 0
           /\ p.pageSize # 0 => p.totalPages.value = Ceiling(p.total, p.pageSize)
           /\ Len(last.out.menus) <= p.pageSize

----------------------------------------------------------------------------
(* Claims about deletion and its cascades, under Spec. *)

\* C16: in every reachable state each category, dish, variant, translation,
\* tag and menu-language row refers to a parent that exists; nothing that
\* belonged to a deleted menu remains.
C16_NoOrphans ==
    /\ \A l \in menuLanguages : HasMenu(l.menuId)
    /\ \A c \in categories : HasMenu(c.menuId)
    /\ \A t \in categoriesTranslation : HasCategory(t.categoryId)
    /\ \A d \in dishes : HasMenu(d.menuId) /\ (d.categoryId = NULL \/ HasCategory(d.categoryId))
    /\ \A t \in dishesTranslation : HasDish(t.dishId)
    /\ \A t \in dishesTag : HasDish(t.dishId)
    /\ \A v \in dishVariants : HasDish(v.dishId)
    /\ \A t \in variantTranslations : HasVariant(t.dishVariantId)

\* a menu with a category, a dish and a variant has just been deleted
C16_Witness ==
    /\ last.op = "deleteMenu"
    /\ last.code = "OK"
    /\ last.prev.categories # {}
    /\ last.prev.dishes # {}
    /\ last.prev.dishVariants # {}
    /\ ~HasMenu(last.input.menuId)

----------------------------------------------------------------------------
(* Claims about images, under SpecImages. *)

\* the call cleared an image and the storage removal failed
ClearedWithFailedRemoval(op, field) ==
    /\ last.op = op
    /\ last.input[field] = NULL
    /\ last.input.removal = "error"

\* C17: when the owner clears an image and the storage removal fails, the
\* database field is still cleared and the call succeeds, returning the
\* updated record.
C17_RemovalFailureSwallowed ==
    /\ (/\ ClearedWithFailedRemoval("updateMenuBackgroundImg", "backgroundImgUrl")
        /\ OwnMenu(last.input.menuId, last.caller) # {})
          => /\ last.code = "OK"
             /\ MenuOf(last.input.menuId).backgroundImageUrl = NULL
             /\ last.out = MenuOf(last.input.menuId)
    /\ (/\ ClearedWithFailedRemoval("updateMenuLogoImg", "logoImgUrl")
        /\ OwnMenu(last.input.menuId, last.caller) # {})
          => /\ last.code = "OK"
             /\ MenuOf(last.input.menuId).logoImageUrl = NULL
             /\ last.out = MenuOf(last.input.menuId)
    /\ (/\ ClearedWithFailedRemoval("updateDishImageUrl", "imageUrl")
        /\ OwnDish(last.input.dishId, last.caller) # {})
          => /\ last.code = "OK"
             /\ DishOf(last.input.dishId).pictureUrl = NULL
             /\ last.out = DishOf(last.input.dishId)

\* a dish picture that was set has been cleared while the removal failed
C17_Witness ==
    /\ ClearedWithFailedRemoval("updateDishImageUrl", "imageUrl")
    /\ last.code = "OK"
    /\ last.prev.pictureUrl # NULL
    /\ DishOf(last.input.dishId).pictureUrl = NULL

----------------------------------------------------------------------------
(* Claims about the default language, under SpecSlug. *)

\* C18: when no language with isoCode 'en' exists, upsertMenu fails with
\* INTERNAL_SERVER_ERROR and creates or modifies no menu and no menu-language
\* row.
C18_NoDefaultLanguage ==
    [][(last'.op = "upsertMenu" /\ ~HasDefaultLanguage)
          => (last'.code = "INTERNAL_SERVER_ERROR" /\ UNCHANGED <<menus, menuLanguages>>)]_vars

\* upsertMenu has been called, for a creation, before the languages were seeded
C18_Witness ==
    /\ last.op = "upsertMenu"
    /\ last.code = "INTERNAL_SERVER_ERROR"
    /\ last.input.id = NULL
    /\ languages = {}
    /\ menus = {}

----------------------------------------------------------------------------
(* Claims about the metrics buffer, under SpecMetrics. *)

\* C19: the buffer holds at most 100 entries, and they are the most recently
\* stored ones in the order in which they were stored; getAllMetrics returns
\* them.
C19_BufferKeepsNewest ==
    /\ Len(performanceBuffer) <= 100
    /\ Len(performanceBuffer) <= Len(storedMetrics)
    /\ performanceBuffer = SubSeq(storedMetrics,
                                  Len(storedMetrics) - Len(performanceBuffer) + 1,
                                  Len(storedMetrics))
    /\ last.op = "getAllMetrics" => last.out = performanceBuffer

\* the buffer has overflowed: it is full and its oldest entry is the 100th from
\* the end of what was stored
C19_Witness ==
    /\ Len(storedMetrics) > 100
    /\ Len(performanceBuffer) = 100
    /\ performanceBuffer[1] = storedMetrics[Len(storedMetrics) - 99]
    /\ performanceBuffer[1].path > 1

----------------------------------------------------------------------------
(* Claims about route classification, under SpecRoutes. *)

\* C20 as stated: isPublicRoute returns false for every pathname for which
\* isProtectedRoute returns true.
C20_AsStated ==
    (last.op = "isProtectedRoute" /\ last.out) => ~isPublicRoute(last.input)

----------------------------------------------------------------------------
(* Claims about the router registry, under SpecRegistry. *)

\* the four names of the registry test
FourRouters == {MENUS, AUTH, LANGUAGES, PAYMENTS}

\* C21 as stated: getRegisteredRouters returns exactly four router names
\* (menus, auth, languages and payments), and isRouterRegistered(name) is true
\* exactly for those names.
C21_AsStated ==
    /\ last.op = "getRegisteredRouters" =>
          /\ Len(last.out) = 4
          /\ {last.out[i] : i \in DOMAIN last.out} = FourRouters
    /\ last.op = "isRouterRegistered" => (last.out <=> last.input \in FourRouters)

----------------------------------------------------------------------------
(* Claims about updates in progress, under SpecNested. *)

MenuReads == {"getMenuBySlug", "getPublicMenuBySlug"}

\* the translations a read returned for the entity an update names
ObservedTranslations(out, op, id) ==
    CASE op = "upsertDish" -> {d.dishesTranslation : d \in {x \in out.dishes : x.id = id}}
      [] op = "upsertCategory" ->
            {c.categoriesTranslation : c \in {x \in out.categories : x.id = id}}
      [] op = "upsertDishVariant" ->
            {v.variantTranslations : v \in {x \in out.dishVariants : x.id = id}}

----------------------------------------------------------------------------
(* Claims about getMenuOptimized calls in progress, under SpecStale. *)

\* C23 as stated: a value that getMenuOptimized returns from the cache was
\* the store's answer to the same query at some moment no more than the TTL
\* (5 minutes) before the return.
C23_AsStated ==
    (last.op = "getMenuOptimized" /\ last.out.queryFnCalls = 0) =>
        \E i \in 1..last.prev.answers :
            /\ answered[i].value = last.out.value
            /\ \/ i = last.prev.answers
               \/ answered[i + 1].at >= last.prev.at - CACHE_TTL_MEDIUM

----------------------------------------------------------------------------
(* Claims about the periodic sweep, under SpecSweep. *)

\* the key holds an entry whose ttl has elapsed (an entry stays expired for as
\* long as it is kept: the clock never goes back)
HoldsExpired(key) == HasEntry(key) /\ now > EntryOf(key).expiry

\* a step of the sweep
CleanupStep == lastGet'.op = "cleanup" /\ lastGet' # lastGet

\* C24: every cache entry whose ttl has elapsed is eventually removed even if
\* its key is never read again (the periodic cleanup removes it), and a cleanup
\* run removes only expired entries, leaving every unexpired entry and its
\* value unchanged.
C24_ExpiredEntriesSwept ==
    /\ \A key \in CacheKeys : HoldsExpired(key) ~> ~HoldsExpired(key)
    /\ [][CleanupStep =>
            /\ cache' \subseteq cache
            /\ \A e \in cache : now <= e.expiry => e \in cache']_vars

\* a sweep has removed an expired entry that was never read and kept an
\* unexpired one
C24_Witness ==
    /\ lastGet.op = "cleanup"
    /\ \E s \in lastSet : s.at + s.ttl < now /\ ~HasEntry(s.key)
    /\ \E e \in cache : now <= e.expiry

----------------------------------------------------------------------------
(* Claims about published menus and the subscription webhook, under         *)
(* SpecPublish.                                                             *)

\* C25 as stated: in every reachable state, a menu with isPublished true
\* belongs to a user whose subscription status is in the active set.
C25_AsStated ==
    \A m \in menus : m.isPublished => HasActiveSubscription(m.userId)

----------------------------------------------------------------------------
(* Claims about the category of a dish, under Spec. *)

\* C26 as stated: in every reachable state, a dish's categoryId is either null
\* or the id of a category that belongs to the same menu as the dish.
C26_AsStated ==
    \A d \in dishes :
        \/ d.categoryId = NULL
        \/ \E c \in categories : c.id = d.categoryId /\ c.menuId = d.menuId

----------------------------------------------------------------------------
(* Claims about variant prices, under SpecContent. *)

\* C27 as stated: upsertDishVariant stores an explicitly given variant price
\* of 0 as the integer 0, distinct from an omitted price, which is stored as
\* null.
C27_AsStated ==
    (last.op = "upsertDishVariant" /\ last.code = "OK") =>
        /\ last.input.price = <<0>> => last.out.price = <<0>>
        /\ last.input.price = <<>> => last.out.price = <<>>
        /\ \A v \in dishVariants : v.id = last.out.id => v.price = last.out.price

----------------------------------------------------------------------------
(* Claims about bulkInsertBatched, under SpecBatch. *)

RECURSIVE Flattened(_)
Flattened(batches) ==
    IF batches = <<>> THEN <<>> ELSE Head(batches) \o Flattened(Tail(batches))

BatchInProgress(id) == \E r \in inflight : r.id = id /\ r.op = "bulkInsertBatched"

\* C28 as stated: bulkInsertBatched terminates for every item list and every
\* batchSize (including 0 and negative values) provided insertFn resolves, and
\* on termination insertFn has received every item exactly once, in the
\* original order, in batches of at most batchSize items.
C28_AsStated ==
    /\ \A id \in RequestIds : BatchInProgress(id) ~> ~BatchInProgress(id)
    /\ [](last.op = "bulkInsertBatched" =>
            /\ Flattened(last.out.batches) = last.input.items
            /\ \A n \in DOMAIN last.out.batches :
                  Len(last.out.batches[n]) <= last.input.batchSize)

----------------------------------------------------------------------------
(* C29: with a signing secret configured, the webhook creates or changes a *)
(* subscription row only when the x-signature header equals the digest of  *)
(* the body under the secret; a request whose signature is missing or does *)
(* not match is answered 400 and leaves the subscriptions as they were.    *)

SignatureMatches ==
    last.input.signature = {createHmac(last.input.secret, last.input.text)}

C29_SignedRequestsOnly ==
    (last.op = "webhookPOST" /\ last.input.secret # <<>>) =>
        /\ subscriptions # last.prev => SignatureMatches
        /\ ~SignatureMatches => (last.code = "400" /\ subscriptions = last.prev)

C29_Witness ==
    /\ last.op = "webhookPOST"
    /\ last.input.secret # <<>>
    /\ SignatureMatches
    /\ last.code = "200"
    /\ subscriptions # last.prev

----------------------------------------------------------------------------
(* C30: however many POST /api/seed-languages calls are made, concurrent   *)
(* ones included, no isoCode is ever stored twice; once a call has         *)
(* answered and none is in progress exactly the six seed languages exist;  *)
(* and a call whose count found a language creates nothing.                *)

SeedInProgress == \E r \in inflight : r.op = "seedLanguagesPOST"
StoredIsoCodes == {l.isoCode : l \in languages}
SeedSet == {SeedIsoCodes[i] : i \in DOMAIN SeedIsoCodes}

C30_SeededExactlyOnce ==
    /\ [](\A a, b \in languages : a.isoCode = b.isoCode => a = b)
    /\ []((last.op = "seedLanguagesPOST" /\ ~SeedInProgress) =>
              (StoredIsoCodes = SeedSet /\ Cardinality(languages) = Len(SeedIsoCodes)))
    /\ [][languages' # languages =>
              \E r \in inflight : /\ r.op = "seedLanguagesPOST"
                                  /\ r.existingCount = 0
                                  /\ r \notin inflight']_vars

\* a request that counted no language is refused after the other one seeded all six
C30_Witness ==
    /\ last.op = "seedLanguagesPOST"
    /\ last.code = "500"
    /\ ~SeedInProgress
    /\ Cardinality(languages) = Len(SeedIsoCodes)

====
